---- MODULE Spec2Model ----
(***************************************************************************)
(* A model of the invoice generator: the commit-to-invoice pipeline of     *)
(* src/src/invoice-generator.ts (source resolution with remote/local       *)
(* fallback, keyword categorisation, hour allocation, the optional AI      *)
(* override, text formatting), the AI pipeline of src/src/ai-analyzer.ts,  *)
(* the schedule evaluator of src/src/config-loader.ts and the scheduler    *)
(* pass of the scheduler script (src/unnamed/part_003).                    *)
(*                                                                         *)
(* Hours are JavaScript numbers in the source.  The model counts them in   *)
(* quarter hours (an hour figure h is the integer 4*h), which represents   *)
(* every multiple of 0.25 exactly and makes "round to the nearest 0.5" an  *)
(* integer computation.  Arithmetic is exact: the model does not follow    *)
(* the binary rounding of the products the source forms in floating point. *)
(***************************************************************************)
EXTENDS Integers, Sequences, FiniteSets, TLC

VARIABLES
  \* ---- a call of one pure function (specifications DistSpec, CatSpec) ----
  call,             \* the function applied and its arguments
  ret,              \* <<its return value>>, <<>> before the call returns
  \* ---- one run of generateInvoice (specification Spec) ----
  pc,               \* position in generateInvoice / analyzeWeekWithCommits
  options,          \* InvoiceOptions handed to generateInvoice
  config,           \* InvoiceConfig: the ai toggles
  startDate,        \* generateInvoice.startDate, a day number
  endDate,          \* generateInvoice.endDate, a day number
  currentWeekStart, \* generateInvoice.currentWeekStart, a day number
  weeklyWork,       \* generateInvoice.weeklyWork
  allCommits,       \* generateInvoice.allCommits
  weekCommits,      \* analyzeWeekWithCommits.allCommits
  repoIdx,          \* index of the next githubRepos entry to fetch
  patIdx,           \* index of the next repoPaths pattern to resolve
  projectDirs,      \* analyzeWeekWithCommits.projectDirs
  dirIdx,           \* index of the next projectDirs entry to read
  aiResult,         \* runAIAnalysis.result
  invoice,          \* <<the InvoiceData returned>>, <<>> before the return
  lastSource,       \* history: the source consulted last and what it gave
  weekLog,          \* history: the commits of each finished week
  aiLog,            \* history: the AI service calls of this run
  \* ---- one scheduler pass (specification SchedSpec) ----
  schedPc,          \* position in runScheduledInvoice
  invoices,         \* configs.invoices of the configuration file
  today,            \* the day number of the pass
  configsToRun,     \* runScheduledInvoice.configsToRun
  cfgIdx,           \* index of the configuration being processed
  log,              \* the lines written by log()
  exitCode,         \* <<the process exit code>>, <<>> while running
  \* ---- one invocation of the command line (specification CliSpec) and
  \* ---- the collaborators it drives: the invoice store and the mail service
  cliPc,            \* position in the action of the default command
  savedInvoice,     \* <<the SavedInvoice saved or loaded>>, <<>> before
  store,            \* the files of the .invoices directory, in creation order
  outbox,           \* the messages handed to transporter.sendMail
  clock,            \* the time new Date() gives, in milliseconds
  console           \* history: what the command has printed

fnVars == <<call, ret>>
genVars == <<pc, options, config, startDate, endDate, currentWeekStart,
             weeklyWork, allCommits, weekCommits, repoIdx, patIdx, projectDirs,
             dirIdx, aiResult, invoice, lastSource, weekLog, aiLog>>
schedVars == <<schedPc, invoices, today, configsToRun, cfgIdx, log, exitCode>>
cliVars == <<cliPc, savedInvoice, store, outbox, clock, console>>
vars == <<call, ret, pc, options, config, startDate, endDate,
          currentWeekStart, weeklyWork, allCommits, weekCommits, repoIdx,
          patIdx, projectDirs, dirIdx, aiResult, invoice, lastSource, weekLog,
          aiLog, schedPc, invoices, today, configsToRun, cfgIdx, log,
          exitCode, cliPc, savedInvoice, store, outbox, clock, console>>


(***************************************************************************)
(* Bounds of the model.                                                    *)
(***************************************************************************)
MaxTasks == 4          \* tasks handed to distributeHours in DistSpec
MaxCount == 3          \* largest commit count of one such task
MaxQuarterHours == 9   \* largest small hour budget, in quarter hours
MaxWords == 2          \* words of a commit message in CatSpec
MaxWeeks == 2          \* weeks of one invoice
MaxRunCommits == 3     \* commits collected over one run of generateInvoice
MaxRemotes == 2        \* configured GitHub repositories
MaxPatterns == 2       \* configured local glob patterns
MaxMatches == 1        \* paths one glob pattern or directory listing yields
MaxFetch == 2          \* output lines or log entries one source returns
MaxWeekCommits == 3    \* commits collected in one week's analysis

\* ------------------------------------------------------------------------
\* Helpers
\* ------------------------------------------------------------------------
Min(a, b) == IF a < b THEN a ELSE b

RECURSIVE SumHours(_)
SumHours(tasks) ==
  IF tasks = <<>> THEN 0 ELSE Head(tasks).hours + SumHours(Tail(tasks))

RECURSIVE SumCommits(_)
SumCommits(tasks) ==
  IF tasks = <<>> THEN 0 ELSE Head(tasks).commits + SumCommits(Tail(tasks))

SeqsUpTo(S, n) == UNION {[1..k -> S] : k \in 0..n}

\* ------------------------------------------------------------------------
\* String.prototype.toLowerCase and String.prototype.includes
\* ------------------------------------------------------------------------
UpperChars == "ABCDEFGHIJKLMNOPQRSTUVWXYZ"
LowerChars == "abcdefghijklmnopqrstuvwxyz"

lowerChar(c) ==
  IF \E i \in 1..Len(UpperChars) : SubSeq(UpperChars, i, i) = c
  THEN LET i == CHOOSE i \in 1..Len(UpperChars) : SubSeq(UpperChars, i, i) = c
       IN SubSeq(LowerChars, i, i)
  ELSE c

RECURSIVE toLowerCase(_)
toLowerCase(s) ==
  IF Len(s) = 0 THEN ""
  ELSE lowerChar(SubSeq(s, 1, 1)) \o toLowerCase(SubSeq(s, 2, Len(s)))

includes(s, k) ==
  \E i \in 1..(Len(s) - Len(k) + 1) : SubSeq(s, i, i + Len(k) - 1) = k

\* ------------------------------------------------------------------------
\* getCommitCategory (invoice-generator.ts 430-484)
\* ------------------------------------------------------------------------
getCommitCategory_featFirst(message) ==
  LET msg == toLowerCase(message) IN
  IF includes(msg, "feat") \/ includes(msg, "add") \/ includes(msg, "implement")
    THEN "New feature development"
  ELSE IF includes(msg, "fix") \/ includes(msg, "bug") \/ includes(msg, "error")
    THEN "Bug fixes and error resolution"
  ELSE IF includes(msg, "refactor") \/ includes(msg, "clean") \/ includes(msg, "optimize")
    THEN "Code refactoring and optimization"
  ELSE IF includes(msg, "test") \/ includes(msg, "spec")
    THEN "Testing and quality assurance"
  ELSE IF includes(msg, "doc") \/ includes(msg, "readme")
    THEN "Documentation updates"
  ELSE IF includes(msg, "ui") \/ includes(msg, "style") \/ includes(msg, "css")
    THEN "UI/UX improvements"
  ELSE IF includes(msg, "data") \/ includes(msg, "database") \/ includes(msg, "migration")
    THEN "Database and data management"
  ELSE IF includes(msg, "api") \/ includes(msg, "endpoint") \/ includes(msg, "route")
    THEN "API development and updates"
  ELSE IF includes(msg, "deploy") \/ includes(msg, "build") \/ includes(msg, "ci")
    THEN "Deployment and DevOps"
  ELSE IF includes(msg, "fax")
    THEN "Fax system development"
  ELSE IF includes(msg, "dashboard") \/ includes(msg, "insight") \/ includes(msg, "report")
    THEN "Dashboard and reporting features"
  ELSE IF includes(msg, "transfer") \/ includes(msg, "patient")
    THEN "Patient transfer workflow"
  ELSE "General development and maintenance"

getCommitCategory(message) ==
  LET msg == toLowerCase(message) IN
  IF includes(msg, "fix") \/ includes(msg, "bug") \/ includes(msg, "error")
    THEN "Bug fixes and error resolution"
  ELSE IF includes(msg, "feat") \/ includes(msg, "add") \/ includes(msg, "implement")
    THEN "New feature development"
  ELSE IF includes(msg, "refactor") \/ includes(msg, "clean") \/ includes(msg, "optimize")
    THEN "Code refactoring and optimization"
  ELSE IF includes(msg, "test") \/ includes(msg, "spec")
    THEN "Testing and quality assurance"
  ELSE IF includes(msg, "doc") \/ includes(msg, "readme")
    THEN "Documentation updates"
  ELSE IF includes(msg, "ui") \/ includes(msg, "style") \/ includes(msg, "css")
    THEN "UI/UX improvements"
  ELSE IF includes(msg, "data") \/ includes(msg, "database") \/ includes(msg, "migration")
    THEN "Database and data management"
  ELSE IF includes(msg, "api") \/ includes(msg, "endpoint") \/ includes(msg, "route")
    THEN "API development and updates"
  ELSE IF includes(msg, "deploy") \/ includes(msg, "build") \/ includes(msg, "ci")
    THEN "Deployment and DevOps"
  ELSE IF includes(msg, "fax")
    THEN "Fax system development"
  ELSE IF includes(msg, "dashboard") \/ includes(msg, "insight") \/ includes(msg, "report")
    THEN "Dashboard and reporting features"
  ELSE IF includes(msg, "transfer") \/ includes(msg, "patient")
    THEN "Patient transfer workflow"
  ELSE "General development and maintenance"

\* ------------------------------------------------------------------------
\* categorizeCommits (invoice-generator.ts 398-428)
\* ------------------------------------------------------------------------
\* The Map of categories, in insertion order, as a sequence of tasks.
RECURSIVE groupCommits(_, _)
groupCommits(commits, categories) ==
  IF commits = <<>> THEN categories
  ELSE LET category == getCommitCategory(Head(commits).message)
           has == \E i \in 1..Len(categories) : categories[i].description = category
           opened == IF has THEN categories
                     ELSE Append(categories,
                                 [description |-> category, hours |-> 0, commits |-> 0])
           counted == [i \in 1..Len(opened) |->
                         IF opened[i].description = category
                         THEN [opened[i] EXCEPT !.commits = @ + 1]
                         ELSE opened[i]]
       IN groupCommits(Tail(commits), counted)

\* Array.prototype.sort with (a, b) => b.commits - a.commits: a stable sort,
\* most commits first.
RECURSIVE insertByCommits(_, _)
insertByCommits(sorted, task) ==
  IF sorted = <<>> THEN <<task>>
  ELSE IF Head(sorted).commits >= task.commits
       THEN <<Head(sorted)>> \o insertByCommits(Tail(sorted), task)
       ELSE <<task>> \o sorted

RECURSIVE sortByCommits(_)
sortByCommits(tasks) ==
  IF tasks = <<>> THEN <<>>
  ELSE insertByCommits(sortByCommits(SubSeq(tasks, 1, Len(tasks) - 1)),
                       tasks[Len(tasks)])

categorizeCommits_unsorted(commits) == groupCommits(commits, <<>>)

categorizeCommits(commits) == sortByCommits(groupCommits(commits, <<>>))

\* ------------------------------------------------------------------------
\* distributeHours (invoice-generator.ts 486-532)
\* ------------------------------------------------------------------------
\* Math.round(x * 2) / 2 for x = num / den hours, with num in quarter hours
\* and the result in quarter hours.  Math.round rounds halves upwards.
roundToHalf_down(num, den) == 2 * (num \div (2 * den))

roundToHalf(num, den) == 2 * ((num + den) \div (2 * den))

noTasksResult_empty(totalHours) == <<>>

noTasksResult(totalHours) ==
  << [description |-> "Development and maintenance",
      hours |-> totalHours,
      commits |-> 0] >>

adjustedHours_unclamped(hours, remainingHours) == hours

adjustedHours(hours, remainingHours) == Min(hours, remainingHours)

positiveHours(task) == task.hours > 0

RECURSIVE tasksWithHours(_, _, _, _, _)
tasksWithHours(tasks, index, totalHours, totalCommits, remainingHours) ==
  IF index > Len(tasks) THEN <<>>
  ELSE IF index = Len(tasks)
       THEN << [tasks[index] EXCEPT !.hours = remainingHours] >>
       ELSE LET hours == roundToHalf(totalHours * tasks[index].commits, totalCommits)
                adjusted == adjustedHours(hours, remainingHours)
            IN << [tasks[index] EXCEPT !.hours = adjusted] >>
               \o tasksWithHours(tasks, index + 1, totalHours, totalCommits,
                                 remainingHours - adjusted)

distributeHours(tasks, totalHours) ==
  IF Len(tasks) = 0 THEN noTasksResult(totalHours)
  ELSE LET totalCommits == SumCommits(tasks) IN
       IF totalCommits = 0
       THEN [i \in 1..Len(tasks) |->
               [tasks[i] EXCEPT !.hours = roundToHalf(totalHours, Len(tasks))]]
       ELSE SelectSeq(tasksWithHours(tasks, 1, totalHours, totalCommits, totalHours),
                      positiveHours)

\* ------------------------------------------------------------------------
\* parseAILineItems (invoice-generator.ts 534-557)
\* ------------------------------------------------------------------------
\* A line of the Stage 2 text is held by the parts the pattern
\*   /\*{0,2}(\d+(?:\.\d+)?)hr\*{0,2}\s*-\s*(.+)$/i
\* looks for: the number before the unit (<<>> when there is none, else
\* <<quarter hours>>), the unit word, whether a dash follows, and the text
\* after the dash.
RECURSIVE trim(_)
trim(s) ==
  IF Len(s) = 0 THEN s
  ELSE IF SubSeq(s, 1, 1) = " " THEN trim(SubSeq(s, 2, Len(s)))
  ELSE IF SubSeq(s, Len(s), Len(s)) = " " THEN trim(SubSeq(s, 1, Len(s) - 1))
  ELSE s

lineMatches(line) ==
  /\ line.number # <<>>
  /\ toLowerCase(line.unit) = "hr"
  /\ line.dash
  /\ Len(line.rest) > 0

RECURSIVE parseAILineItems(_)
parseAILineItems(lines) ==
  IF lines = <<>> THEN <<>>
  ELSE (IF lineMatches(Head(lines))
        THEN << [description |-> trim(Head(lines).rest),
                 hours |-> Head(lines).number[1],
                 commits |-> 0] >>
        ELSE <<>>) \o parseAILineItems(Tail(lines))

\* ------------------------------------------------------------------------
\* formatInvoice (invoice-generator.ts 559-578)
\* ------------------------------------------------------------------------
\* task.hours % 1 === 0 ? task.hours.toString() : task.hours.toFixed(1):
\* the whole hours and, when the figure is not whole, the one decimal digit
\* toFixed(1) prints (a tie such as 1.25 goes up, to 1.3).
hoursStr(hours) ==
  IF hours % 4 = 0
  THEN [whole |-> hours \div 4, tenth |-> <<>>]
  ELSE LET tenths == (10 * hours + 2) \div 4
       IN [whole |-> tenths \div 10, tenth |-> << tenths % 10 >>]

printedTask_all(task) == TRUE

\* formatInvoice 568
printedTask(task) == task.hours > 0

RECURSIVE taskLines(_)
taskLines(tasks) ==
  IF tasks = <<>> THEN <<>>
  ELSE (IF printedTask(Head(tasks))
        THEN << [kind |-> "task", hours |-> hoursStr(Head(tasks).hours),
                 description |-> Head(tasks).description] >>
        ELSE <<>>) \o taskLines(Tail(tasks))

RECURSIVE weekLines(_)
weekLines(weeks) ==
  IF weeks = <<>> THEN <<>>
  ELSE << [kind |-> "header", dateRange |-> Head(weeks).dateRange,
           totalHours |-> Head(weeks).totalHours] >>
       \o taskLines(Head(weeks).tasks)
       \o << [kind |-> "blank"] >>
       \o weekLines(Tail(weeks))

\* lines.join('\n').trim(): no line of the model begins or ends with white
\* space, so trimming removes the blank lines at the end.
RECURSIVE trimLines(_)
trimLines(lines) ==
  IF lines # <<>> /\ lines[Len(lines)].kind = "blank"
  THEN trimLines(SubSeq(lines, 1, Len(lines) - 1))
  ELSE lines

formatInvoice(weeks) == trimLines(weekLines(weeks))

\* ------------------------------------------------------------------------
\* Dates: day numbers, day 0 a Sunday (date-fns with weekStartsOn: 0)
\* ------------------------------------------------------------------------
startOfWeek(d) == d - (d % 7)
endOfWeek(d) == d + (6 - (d % 7))
subWeeks(d, n) == d - 7 * n
addWeeks(d, n) == d + 7 * n

\* ------------------------------------------------------------------------
\* Repository labels
\* ------------------------------------------------------------------------
RECURSIVE split(_, _)
split(s, sep) ==
  IF ~ includes(s, sep) THEN <<s>>
  ELSE LET i == CHOOSE i \in 1..Len(s) :
                  /\ SubSeq(s, i, i) = sep
                  /\ \A j \in 1..(i - 1) : SubSeq(s, j, j) # sep
       IN << SubSeq(s, 1, i - 1) >> \o split(SubSeq(s, i + 1, Len(s)), sep)

\* repo.split('/')[1] || repo
githubRepoLabel(repo) ==
  LET parts == split(repo, "/")
  IN IF Len(parts) >= 2 /\ parts[2] # "" THEN parts[2] ELSE repo

\* path.basename(dir)
basename(dir) == LET parts == split(dir, "/") IN parts[Len(parts)]

\* ------------------------------------------------------------------------
\* The variables of the parts a specification does not exercise
\* ------------------------------------------------------------------------
FnIdle == call = <<>> /\ ret = <<>>

GenIdle ==
  /\ pc = "idle"
  /\ options = <<>>
  /\ config = <<>>
  /\ startDate = 0
  /\ endDate = 0
  /\ currentWeekStart = 0
  /\ weeklyWork = <<>>
  /\ allCommits = <<>>
  /\ weekCommits = <<>>
  /\ repoIdx = 0
  /\ patIdx = 0
  /\ projectDirs = <<>>
  /\ dirIdx = 0
  /\ aiResult = <<>>
  /\ invoice = <<>>
  /\ lastSource = <<>>
  /\ weekLog = <<>>
  /\ aiLog = <<>>

SchedIdle ==
  /\ schedPc = "idle"
  /\ invoices = <<>>
  /\ today = 0
  /\ configsToRun = <<>>
  /\ cfgIdx = 0
  /\ log = <<>>
  /\ exitCode = <<>>

CliIdle ==
  /\ cliPc = "idle"
  /\ savedInvoice = <<>>
  /\ store = <<>>
  /\ outbox = <<>>
  /\ clock = 0
  /\ console = <<>>

\* ------------------------------------------------------------------------
\* DistSpec: distributeHours applied to bounded inputs
\* ------------------------------------------------------------------------
CategoryLabels ==
  << "Bug fixes and error resolution", "New feature development",
     "Code refactoring and optimization", "Testing and quality assurance",
     "Documentation updates", "UI/UX improvements",
     "Database and data management", "API development and updates",
     "Deployment and DevOps", "Fax system development",
     "Dashboard and reporting features", "Patient transfer workflow",
     "General development and maintenance" >>

\* hoursPerWeek defaults to 30 hours, 120 quarter hours
DefaultHoursPerWeek == 120

HourChoices == (0..MaxQuarterHours) \cup {DefaultHoursPerWeek}

\* Commit counts of the categories of a week with 7 fixes and 3 features.
ScenarioCounts == { <<7, 3>> }

TaskInputs ==
  { [i \in 1..Len(counts) |->
       [description |-> CategoryLabels[i], hours |-> 0, commits |-> counts[i]]] :
    counts \in SeqsUpTo(0..MaxCount, MaxTasks) \cup ScenarioCounts }

DistInit ==
  /\ call \in { [fn |-> "distributeHours", tasks |-> t, totalHours |-> h] :
                 t \in TaskInputs, h \in HourChoices }
  /\ ret = <<>>
  /\ GenIdle
  /\ SchedIdle
  /\ CliIdle

DistCall ==
  /\ ret = <<>>
  /\ ret' = << distributeHours(call.tasks, call.totalHours) >>
  /\ UNCHANGED <<call, genVars, schedVars, cliVars>>

DistNext == DistCall

DistSpec == DistInit /\ [][DistNext]_vars

\* ------------------------------------------------------------------------
\* CatSpec: getCommitCategory applied to bounded commit messages
\* ------------------------------------------------------------------------
Words ==
  { "Fix", "bug", "ERROR", "feat", "Add", "implement", "refactor", "clean",
    "optimize", "test", "spec", "doc", "readme", "ui", "style", "css", "data",
    "database", "migration", "api", "endpoint", "route", "deploy", "build",
    "ci", "fax", "dashboard", "insight", "report", "transfer", "patient",
    "update", "wip", "prefix", "Merge" }

RECURSIVE joinWords(_)
joinWords(ws) ==
  IF ws = <<>> THEN ""
  ELSE IF Len(ws) = 1 THEN ws[1]
  ELSE ws[1] \o " " \o joinWords(Tail(ws))

Messages == { joinWords(ws) : ws \in SeqsUpTo(Words, MaxWords) \ {<<>>} }

CatInit ==
  /\ call \in { [fn |-> "getCommitCategory", message |-> m] : m \in Messages }
  /\ ret = <<>>
  /\ GenIdle
  /\ SchedIdle
  /\ CliIdle

CatCall ==
  /\ ret = <<>>
  /\ ret' = << getCommitCategory(call.message) >>
  /\ UNCHANGED <<call, genVars, schedVars, cliVars>>

CatNext == CatCall

CatSpec == CatInit /\ [][CatNext]_vars

\* ------------------------------------------------------------------------
\* GroupSpec: categorizeCommits called on a list of commits, and called
\* again on the same list
\* ------------------------------------------------------------------------
MaxGroupCommits == 4

GroupMessages ==
  { "Fix login error", "Add CSV export", "Bump version", "Update readme",
    "Fix typo in readme" }

GroupInit ==
  /\ call \in { [fn |-> "categorizeCommits", commits |-> c] :
                 c \in SeqsUpTo({ [message |-> m, repo |-> "api"] : m \in GroupMessages },
                                MaxGroupCommits) }
  /\ ret = <<>>
  /\ GenIdle
  /\ SchedIdle
  /\ CliIdle

GroupCall ==
  /\ Len(ret) < 2
  /\ ret' = Append(ret, categorizeCommits(call.commits))
  /\ UNCHANGED <<call, genVars, schedVars, cliVars>>

GroupNext == GroupCall

GroupSpec == GroupInit /\ [][GroupNext]_vars

\* ------------------------------------------------------------------------
\* WeekSpec: one call of analyzeWeekWithCommits (invoice-generator.ts 243-349)
\* ------------------------------------------------------------------------
RemoteRepos == << "acme/api", "acme/web", "acme/ops" >>
RepoPatterns == << "/opt/dev/acme*", "/srv/git/*", "/home/dev/*" >>
LocalDirs == { "/opt/dev/acme-api", "/srv/git/billing" }
BaseDir == "/opt/dev"
BaseDirEntries == { "acme-api", "ACME-web", "zeta" }
PathKinds == { "repo", "plainDir", "file", "statError" }
CommitMessages == { "Fix login error", "Add CSV export", "Bump version" }
InvalidLine == "<not json>"
Todays == { 17 }
HoursPerWeekChoices == { 0, 5, DefaultHoursPerWeek }

\* The commit records of the model hold message and repo; the date of a
\* record is never read after the fetch.
Commit(message, repo) == [message |-> message, repo |-> repo]

WeekInit ==
  /\ FnIdle
  /\ SchedIdle
  /\ CliIdle
  /\ \E nr \in 0..MaxRemotes, np \in 0..MaxPatterns, cust \in {"", "acme"},
        h \in HoursPerWeekChoices, now \in Todays :
       /\ (cust = "" => np = 0)
       /\ options = [customer |-> cust,
                     repoPaths |-> SubSeq(RepoPatterns, 1, np),
                     hoursPerWeek |-> h,
                     githubRepos |-> SubSeq(RemoteRepos, 1, nr)]
       /\ currentWeekStart = startOfWeek(now)
       /\ pc = IF nr > 0 THEN "github" ELSE "fallback"
  /\ config = <<>>
  /\ startDate = 0
  /\ endDate = 0
  /\ weeklyWork = <<>>
  /\ allCommits = <<>>
  /\ weekCommits = <<>>
  /\ repoIdx = 1
  /\ patIdx = 1
  /\ projectDirs = <<>>
  /\ dirIdx = 1
  /\ aiResult = <<>>
  /\ invoice = <<>>
  /\ lastSource = <<>>
  /\ weekLog = <<>>
  /\ aiLog = <<>>

\* Commits the week may still collect before it reaches MaxWeekCommits.
Room == MaxWeekCommits - Len(weekCommits)

RECURSIVE validLines(_)
validLines(lines) ==
  IF lines = <<>> THEN <<>>
  ELSE (IF Head(lines) = InvalidLine THEN <<>> ELSE << Head(lines) >>)
       \o validLines(Tail(lines))

\* getGitHubCommitsForRepo 351-396: the gh command fails (caught, no commits)
\* or prints lines, of which those that parse as JSON become commits.
getGitHubCommitsForRepo(repo, outcome) ==
  IF outcome.error THEN <<>>
  ELSE LET msgs == validLines(outcome.lines)
       IN [i \in 1..Len(msgs) |-> Commit(msgs[i], githubRepoLabel(repo))]

pushCommits_replace(commits, fetched) == fetched

\* allCommits.push(...commits)
pushCommits(commits, fetched) == commits \o fetched

\* analyzeWeekWithCommits 258-270: one iteration of the loop over githubRepos.
FetchGitHub ==
  /\ pc = "github"
  /\ \E outcome \in
        { [error |-> TRUE, lines |-> <<>>] }
        \cup { [error |-> FALSE, lines |-> ls] :
               ls \in { l \in SeqsUpTo(CommitMessages \cup {InvalidLine}, MaxFetch) :
                        Len(validLines(l)) <= Room } } :
       LET repo == options.githubRepos[repoIdx]
           commits == getGitHubCommitsForRepo(repo, outcome)
       IN /\ weekCommits' = pushCommits(weekCommits, commits)
          /\ lastSource' = << [kind |-> "remote", name |-> repo,
                               failed |-> outcome.error, commits |-> commits] >>
  /\ repoIdx' = repoIdx + 1
  /\ pc' = IF repoIdx = Len(options.githubRepos) THEN "fallback" ELSE "github"
  /\ UNCHANGED <<options, config, startDate, endDate, currentWeekStart,
                 weeklyWork, allCommits, patIdx, projectDirs, dirIdx, aiResult,
                 invoice, weekLog, aiLog, fnVars, schedVars, cliVars>>

useLocalFallback_always(commits) == TRUE

\* if (allCommits.length === 0)
useLocalFallback(commits) == Len(commits) = 0

\* analyzeWeekWithCommits 274-288: the fallback decision and the choice of
\* the local search.
Fallback ==
  /\ pc = "fallback"
  /\ pc' = IF ~ useLocalFallback(weekCommits) THEN "categorize"
           ELSE IF Len(options.repoPaths) > 0 THEN "resolve"
           ELSE IF options.customer # "" THEN "search"
           ELSE "local"
  /\ UNCHANGED <<options, config, startDate, endDate, currentWeekStart,
                 weeklyWork, allCommits, weekCommits, repoIdx, patIdx,
                 projectDirs, dirIdx, aiResult, invoice, lastSource, weekLog,
                 aiLog, fnVars, schedVars, cliVars>>

\* The directories kept from the paths found, in order: a path that is a
\* directory holding .git is kept, any other is skipped, and a stat that
\* fails ends the walk (the exception leaves the loop over the matches).
RECURSIVE gitDirs(_)
gitDirs(found) ==
  IF found = <<>> THEN <<>>
  ELSE IF Head(found).kind = "statError" THEN <<>>
  ELSE (IF Head(found).kind = "repo" THEN << Head(found).path >> ELSE <<>>)
       \o gitDirs(Tail(found))

PathsFound(names) ==
  SeqsUpTo({ [path |-> n, kind |-> k] : n \in names, k \in PathKinds }, MaxMatches)

statFails(found) == \E i \in 1..Len(found) : found[i].kind = "statError"

\* resolveRepoPaths 160-192: one iteration of the loop over the patterns.
ResolveRepoPaths ==
  /\ pc = "resolve"
  /\ \E outcome \in
        { [error |-> TRUE, found |-> <<>>] }
        \cup { [error |-> FALSE, found |-> f] : f \in PathsFound(LocalDirs) } :
       /\ projectDirs' = projectDirs \o gitDirs(outcome.found)
       /\ lastSource' = << [kind |-> "glob", name |-> options.repoPaths[patIdx],
                            failed |-> outcome.error \/ statFails(outcome.found),
                            commits |-> <<>>] >>
  /\ patIdx' = patIdx + 1
  /\ pc' = IF patIdx = Len(options.repoPaths) THEN "local" ELSE "resolve"
  /\ UNCHANGED <<options, config, startDate, endDate, currentWeekStart,
                 weeklyWork, allCommits, weekCommits, repoIdx, dirIdx, aiResult,
                 invoice, weekLog, aiLog, fnVars, schedVars, cliVars>>

RECURSIVE customerEntries(_, _)
customerEntries(found, customer) ==
  IF found = <<>> THEN <<>>
  ELSE (IF includes(toLowerCase(Head(found).path), toLowerCase(customer))
        THEN << [path |-> BaseDir \o "/" \o Head(found).path,
                 kind |-> Head(found).kind] >>
        ELSE <<>>) \o customerEntries(Tail(found), customer)

\* getProjectDirectories 194-224: the customer-based search of /opt/dev.
GetProjectDirectories ==
  /\ pc = "search"
  /\ \E outcome \in
        { [error |-> TRUE, found |-> <<>>] }
        \cup { [error |-> FALSE, found |-> f] : f \in PathsFound(BaseDirEntries) } :
       LET entries == customerEntries(outcome.found, options.customer)
       IN /\ projectDirs' = gitDirs(entries)
          /\ lastSource' = << [kind |-> "search", name |-> options.customer,
                               failed |-> outcome.error \/ statFails(entries),
                               commits |-> <<>>] >>
  /\ pc' = "local"
  /\ UNCHANGED <<options, config, startDate, endDate, currentWeekStart,
                 weeklyWork, allCommits, weekCommits, repoIdx, patIdx, dirIdx,
                 aiResult, invoice, weekLog, aiLog, fnVars, schedVars, cliVars>>

\* analyzeWeekWithCommits 295-323: one iteration of the loop over projectDirs.
ReadLocalLog ==
  /\ pc = "local"
  /\ dirIdx <= Len(projectDirs)
  /\ \E outcome \in
        { [error |-> TRUE, lines |-> <<>>] }
        \cup { [error |-> FALSE, lines |-> ls] :
               ls \in { l \in SeqsUpTo(CommitMessages, MaxFetch) : Len(l) <= Room } } :
       LET dir == projectDirs[dirIdx]
           commits == IF outcome.error THEN <<>>
                      ELSE [i \in 1..Len(outcome.lines) |->
                              Commit(outcome.lines[i], basename(dir))]
       IN /\ weekCommits' = pushCommits(weekCommits, commits)
          /\ lastSource' = << [kind |-> "local", name |-> dir,
                               failed |-> outcome.error, commits |-> commits] >>
  /\ dirIdx' = dirIdx + 1
  /\ UNCHANGED <<pc, options, config, startDate, endDate, currentWeekStart,
                 weeklyWork, allCommits, repoIdx, patIdx, projectDirs,
                 aiResult, invoice, weekLog, aiLog, fnVars, schedVars, cliVars>>

\* The loop over projectDirs ends.
EndLocal ==
  /\ pc = "local"
  /\ dirIdx > Len(projectDirs)
  /\ pc' = "categorize"
  /\ UNCHANGED <<options, config, startDate, endDate, currentWeekStart,
                 weeklyWork, allCommits, weekCommits, repoIdx, patIdx,
                 projectDirs, dirIdx, aiResult, invoice, lastSource, weekLog,
                 aiLog, fnVars, schedVars, cliVars>>

\* analyzeWeekWithCommits 330-343
weekWork(weekStart, weekEnd, hoursPerWeek, commits) ==
  [weekStart |-> weekStart,
   weekEnd |-> weekEnd,
   dateRange |-> [from |-> weekStart, to |-> weekEnd],
   totalHours |-> hoursPerWeek,
   tasks |-> distributeHours(categorizeCommits(commits), hoursPerWeek)]

\* analyzeWeekWithCommits 330-348: the week is categorised, allotted its
\* hours and returned with its commits.
FinishWeek ==
  /\ pc = "categorize"
  /\ ret' = << [weekWork |-> weekWork(currentWeekStart, endOfWeek(currentWeekStart),
                                     options.hoursPerWeek, weekCommits),
                commits |-> weekCommits] >>
  /\ pc' = "returned"
  /\ UNCHANGED <<call, options, config, startDate, endDate, currentWeekStart,
                 weeklyWork, allCommits, weekCommits, repoIdx, patIdx,
                 projectDirs, dirIdx, aiResult, invoice, lastSource, weekLog,
                 aiLog, schedVars, cliVars>>

WeekNext ==
  \/ FetchGitHub
  \/ Fallback
  \/ ResolveRepoPaths
  \/ GetProjectDirectories
  \/ ReadLocalLog
  \/ EndLocal
  \/ FinishWeek

WeekSpec == WeekInit /\ [][WeekNext]_vars

\* ------------------------------------------------------------------------
\* Spec: one run of generateInvoiceFromConfig / generateInvoice
\* (invoice-generator.ts 52-158) with the AI pipeline (ai-analyzer.ts)
\* ------------------------------------------------------------------------
\* config.ai: absent or disabled, or enabled with either stage on or off
AIConfigs ==
  { [enabled |-> FALSE, codeAnalysis |-> FALSE, lineItemGeneration |-> FALSE] }
  \cup { [enabled |-> TRUE, codeAnalysis |-> a, lineItemGeneration |-> l] :
         a \in BOOLEAN, l \in BOOLEAN }

\* What the AI service may answer.  Stage 1: an error, nothing, a narrative.
Stage1Texts == { "", "Reworked login error handling and added CSV export." }

Item(q, rest) == [number |-> <<q>>, unit |-> "hr", dash |-> TRUE, rest |-> rest]
Prose == [number |-> <<>>, unit |-> "", dash |-> FALSE, rest |-> ""]

\* Stage 2: an error, nothing, or one of these texts (sequences of lines).
AITexts ==
  { << Prose, Item(72, " Login error handling"), Item(48, " CSV export") >>,
    << Item(600, " Platform rewrite") >>,
    << Item(3, " Review"), Item(3, " Triage"),
       [number |-> <<2>>, unit |-> "HR", dash |-> TRUE, rest |-> " Sync "] >>,
    << Prose, [number |-> <<8>>, unit |-> "hours", dash |-> TRUE, rest |-> " Support"] >>,
    << Item(0, " Nothing billable") >> }

\* generateInvoiceFromConfig 144-158 and generateInvoice 53-80: no explicit
\* dates, so the window ends with last week and starts weeks - 1 weeks before.
GenInit ==
  /\ FnIdle
  /\ SchedIdle
  /\ CliIdle
  /\ \E h \in HoursPerWeekChoices, w \in 1..MaxWeeks, ai \in AIConfigs,
        now \in Todays :
       /\ options = [customer |-> "acme",
                     weeks |-> w,
                     repoPaths |-> <<>>,
                     hoursPerWeek |-> h,
                     githubRepos |-> SubSeq(RemoteRepos, 1, 1)]
       /\ config = [ai |-> ai]
       /\ endDate = endOfWeek(subWeeks(now, 1))
       /\ startDate = startOfWeek(subWeeks(endOfWeek(subWeeks(now, 1)), w - 1))
       /\ currentWeekStart = startOfWeek(subWeeks(endOfWeek(subWeeks(now, 1)), w - 1))
  /\ pc = "loop"
  /\ weeklyWork = <<>>
  /\ allCommits = <<>>
  /\ weekCommits = <<>>
  /\ repoIdx = 0
  /\ patIdx = 0
  /\ projectDirs = <<>>
  /\ dirIdx = 0
  /\ aiResult = [codeAnalysis |-> <<>>, lineItems |-> <<>>]
  /\ invoice = <<>>
  /\ lastSource = <<>>
  /\ weekLog = <<>>
  /\ aiLog = <<>>

\* The commit lists analyzeWeekWithCommits may return to generateInvoice
\* before the run reaches MaxRunCommits.
WeekResults ==
  { c \in SeqsUpTo({ Commit(m, githubRepoLabel(RemoteRepos[1])) : m \in CommitMessages },
                   MaxRunCommits) :
    Len(allCommits) + Len(c) <= MaxRunCommits }

\* generateInvoice 82-100: one iteration of the loop over the weeks; the
\* week's commits are what analyzeWeekWithCommits collected (WeekSpec).
AnalyzeWeek ==
  /\ pc = "loop"
  /\ currentWeekStart <= endDate
  /\ \E commits \in WeekResults :
       /\ weeklyWork' = Append(weeklyWork,
                               weekWork(currentWeekStart, endOfWeek(currentWeekStart),
                                        options.hoursPerWeek, commits))
       /\ allCommits' = allCommits \o commits
       /\ weekLog' = Append(weekLog, commits)
  /\ currentWeekStart' = addWeeks(currentWeekStart, 1)
  /\ UNCHANGED <<pc, options, config, startDate, endDate, weekCommits, repoIdx,
                 patIdx, projectDirs, dirIdx, aiResult, invoice, lastSource,
                 aiLog, fnVars, schedVars, cliVars>>

RECURSIVE SumTotalHours(_)
SumTotalHours(weeks) ==
  IF weeks = <<>> THEN 0 ELSE Head(weeks).totalHours + SumTotalHours(Tail(weeks))

\* generateInvoice 102-105: the loop ends; the AI analysis is entered when
\* it is enabled and commits were collected.
EndLoop ==
  /\ pc = "loop"
  /\ ~ (currentWeekStart <= endDate)
  /\ pc' = IF config.ai.enabled /\ Len(allCommits) > 0 THEN "stage1" ELSE "format"
  /\ UNCHANGED <<options, config, startDate, endDate, currentWeekStart,
                 weeklyWork, allCommits, weekCommits, repoIdx, patIdx,
                 projectDirs, dirIdx, aiResult, invoice, lastSource, weekLog,
                 aiLog, fnVars, schedVars, cliVars>>

\* runAIAnalysis 196-199 with analyzeCodeChanges 110-144: the service is
\* called when Stage 1 is enabled; an error of the call is caught and gives
\* the empty string.
AIStage1 ==
  /\ pc = "stage1"
  /\ IF config.ai.codeAnalysis
     THEN \E outcome \in { [error |-> TRUE, text |-> ""] }
                         \cup { [error |-> FALSE, text |-> t] : t \in Stage1Texts } :
            /\ aiResult' = [aiResult EXCEPT !.codeAnalysis = << outcome.text >>]
            /\ aiLog' = Append(aiLog, [stage |-> 1, failed |-> outcome.error])
     ELSE UNCHANGED <<aiResult, aiLog>>
  /\ pc' = "stage2"
  /\ UNCHANGED <<options, config, startDate, endDate, currentWeekStart,
                 weeklyWork, allCommits, weekCommits, repoIdx, patIdx,
                 projectDirs, dirIdx, invoice, lastSource, weekLog, fnVars,
                 schedVars, cliVars>>

stage2Due_enabledOnly(ai, result) == ai.lineItemGeneration

\* runAIAnalysis 202: config.ai.lineItemGeneration?.enabled && result.codeAnalysis
stage2Due(ai, result) ==
  /\ ai.lineItemGeneration
  /\ result.codeAnalysis # <<>>
  /\ result.codeAnalysis[1] # ""

\* runAIAnalysis 201-204 with generateLineItems 149-179
AIStage2 ==
  /\ pc = "stage2"
  /\ IF stage2Due(config.ai, aiResult)
     THEN \E outcome \in { [error |-> TRUE, text |-> <<>>] }
                         \cup { [error |-> FALSE, text |-> t] :
                                t \in AITexts \cup {<<>>} } :
            /\ aiResult' = [aiResult EXCEPT !.lineItems = << outcome.text >>]
            /\ aiLog' = Append(aiLog, [stage |-> 2, failed |-> outcome.error])
     ELSE UNCHANGED <<aiResult, aiLog>>
  /\ pc' = "override"
  /\ UNCHANGED <<options, config, startDate, endDate, currentWeekStart,
                 weeklyWork, allCommits, weekCommits, repoIdx, patIdx,
                 projectDirs, dirIdx, invoice, lastSource, weekLog, fnVars,
                 schedVars, cliVars>>

hasLineItems_defined(result) == result.lineItems # <<>>

\* if (aiResult.lineItems): defined and not the empty string
hasLineItems(result) == result.lineItems # <<>> /\ result.lineItems[1] # <<>>

\* generateInvoice 115-121: Math.round(task.hours * weekProportion * 2) / 2
\* with weekProportion = week.totalHours / totalHours; 0 / 0 is NaN, and a
\* NaN hour figure fails the filter hours > 0.
redistribute_unscaled(aiTasks, weekHours, totalHours) == aiTasks

RECURSIVE redistribute(_, _, _)
redistribute(aiTasks, weekHours, totalHours) ==
  IF aiTasks = <<>> \/ totalHours = 0 THEN <<>>
  ELSE LET hours == roundToHalf(Head(aiTasks).hours * weekHours, totalHours)
       IN (IF hours > 0 THEN << [Head(aiTasks) EXCEPT !.hours = hours] >> ELSE <<>>)
          \o redistribute(Tail(aiTasks), weekHours, totalHours)

\* generateInvoice 109-122
ApplyLineItems ==
  /\ pc = "override"
  /\ weeklyWork' =
       IF hasLineItems(aiResult)
       THEN LET aiTasks == parseAILineItems(aiResult.lineItems[1])
                totalHours == SumTotalHours(weeklyWork)
            IN [i \in 1..Len(weeklyWork) |->
                  [weeklyWork[i] EXCEPT
                     !.tasks = redistribute(aiTasks, weeklyWork[i].totalHours,
                                            totalHours)]]
       ELSE weeklyWork
  /\ pc' = "format"
  /\ UNCHANGED <<options, config, startDate, endDate, currentWeekStart,
                 allCommits, weekCommits, repoIdx, patIdx, projectDirs, dirIdx,
                 aiResult, invoice, lastSource, weekLog, aiLog, fnVars,
                 schedVars, cliVars>>

\* generateInvoice 131-141
invoiceData(customer, start, end, weeks) ==
  [customer |-> customer,
   startDate |-> start,
   endDate |-> end,
   text |-> formatInvoice(weeks),
   totalHours |-> SumTotalHours(weeks),
   weeks |-> weeks]

Return ==
  /\ pc = "format"
  /\ invoice' = << invoiceData(options.customer, startDate, endDate, weeklyWork) >>
  /\ pc' = "returned"
  /\ UNCHANGED <<options, config, startDate, endDate, currentWeekStart,
                 weeklyWork, allCommits, weekCommits, repoIdx, patIdx,
                 projectDirs, dirIdx, aiResult, lastSource, weekLog, aiLog,
                 fnVars, schedVars, cliVars>>

Next ==
  \/ AnalyzeWeek
  \/ EndLoop
  \/ AIStage1
  \/ AIStage2
  \/ ApplyLineItems
  \/ Return

Spec == GenInit /\ [][Next]_vars

\* ------------------------------------------------------------------------
\* DateSpec: generateInvoice with explicit start and end dates (the legacy
\* command's --start-date and --end-date), without AI
\* ------------------------------------------------------------------------
\* generateInvoice 59-64
resolveEndDate(o, now) ==
  IF o.endDate # <<>> THEN o.endDate[1] ELSE endOfWeek(subWeeks(now, 1))

\* generateInvoice 66-71
resolveStartDate(o, end) ==
  IF o.startDate # <<>> THEN o.startDate[1]
  ELSE startOfWeek(subWeeks(end, o.weeks - 1))

\* Not given, a Sunday, a Wednesday.
ExplicitStarts == { <<>>, << 0 >>, << 3 >> }

\* Not given, a Saturday, a Wednesday, the Saturday after it.
ExplicitEnds == { <<>>, << 13 >>, << 17 >>, << 20 >> }

DateInit ==
  /\ FnIdle
  /\ SchedIdle
  /\ CliIdle
  /\ \E w \in 1..MaxWeeks, s \in ExplicitStarts, e \in ExplicitEnds, now \in Todays :
       /\ options = [customer |-> "acme",
                     weeks |-> w,
                     startDate |-> s,
                     endDate |-> e,
                     repoPaths |-> <<>>,
                     hoursPerWeek |-> DefaultHoursPerWeek,
                     githubRepos |-> SubSeq(RemoteRepos, 1, 1)]
       /\ endDate = resolveEndDate(options, now)
       /\ startDate = resolveStartDate(options, resolveEndDate(options, now))
       /\ currentWeekStart = resolveStartDate(options, resolveEndDate(options, now))
  /\ config = [ai |-> [enabled |-> FALSE]]
  /\ pc = "loop"
  /\ weeklyWork = <<>>
  /\ allCommits = <<>>
  /\ weekCommits = <<>>
  /\ repoIdx = 0
  /\ patIdx = 0
  /\ projectDirs = <<>>
  /\ dirIdx = 0
  /\ aiResult = [codeAnalysis |-> <<>>, lineItems |-> <<>>]
  /\ invoice = <<>>
  /\ lastSource = <<>>
  /\ weekLog = <<>>
  /\ aiLog = <<>>

DateNext ==
  \/ AnalyzeWeek
  \/ EndLoop
  \/ Return

DateSpec == DateInit /\ [][DateNext]_vars

\* ------------------------------------------------------------------------
\* FormatSpec: one call of formatInvoice
\* ------------------------------------------------------------------------
MaxFormatWeeks == 2
MaxFormatTasks == 2

\* Hours of a task, in quarter hours: none, half an hour, a whole hour, an
\* hour and a quarter.
FormatHours == { 0, 2, 4, 5 }

FormatTasks ==
  { [i \in 1..Len(h) |-> [description |-> CategoryLabels[i], hours |-> h[i], commits |-> 1]] :
    h \in SeqsUpTo(FormatHours, MaxFormatTasks) }

FormatWeeks ==
  { [i \in 1..Len(w) |->
       [weekStart |-> 7 * i, weekEnd |-> 7 * i + 6,
        dateRange |-> [from |-> 7 * i, to |-> 7 * i + 6],
        totalHours |-> w[i].totalHours, tasks |-> w[i].tasks]] :
    w \in SeqsUpTo([totalHours : { 0, DefaultHoursPerWeek }, tasks : FormatTasks],
                   MaxFormatWeeks) }

FormatInit ==
  /\ call \in { [fn |-> "formatInvoice", weeks |-> w] : w \in FormatWeeks }
  /\ ret = <<>>
  /\ GenIdle
  /\ SchedIdle
  /\ CliIdle

FormatCall ==
  /\ ret = <<>>
  /\ ret' = << formatInvoice(call.weeks) >>
  /\ UNCHANGED <<call, genVars, schedVars, cliVars>>

FormatNext == FormatCall

FormatSpec == FormatInit /\ [][FormatNext]_vars

\* ------------------------------------------------------------------------
\* SchedSpec: one pass of the scheduler (runScheduledInvoice) over the
\* configurations of the config file
\* ------------------------------------------------------------------------
MaxConfigs == 2

\* A Date is held as the record [y, m, d, hour, utcOffset]: the calendar
\* date (m is 1..12) and the hour of the instant as seen in the zone of the
\* process, which lies utcOffset hours east of UTC.
isLeapYear(y) == (y % 4 = 0 /\ y % 100 # 0) \/ y % 400 = 0

daysInMonth_noLeap(y, m) ==
  IF m = 2 THEN 28 ELSE IF m \in {4, 6, 9, 11} THEN 30 ELSE 31

daysInMonth(y, m) ==
  IF m = 2 THEN (IF isLeapYear(y) THEN 29 ELSE 28)
  ELSE IF m \in {4, 6, 9, 11} THEN 30
  ELSE 31

RECURSIVE daysBefore(_, _)
\* Days from 1 January 2024 to the first day of month m of year y.
daysBefore(y, m) ==
  IF m > 1 THEN daysBefore(y, m - 1) + daysInMonth(y, m - 1)
  ELSE IF y > 2024 THEN daysBefore(y - 1, 12) + daysInMonth(y - 1, 12)
  ELSE 0

\* Days from 1 January 2024 to the calendar date of the record.
dayNumber(date) == daysBefore(date.y, date.m) + date.d - 1

\* Date.getTime, counted in hours from 2024-01-01T00:00Z.
getTime(date) == dayNumber(date) * 24 + date.hour - date.utcOffset

\* new Date('YYYY-MM-DD'): a date-only string is midnight UTC of that day.
parseDate(ymd) == [y |-> ymd.y, m |-> ymd.m, d |-> ymd.d, hour |-> 0, utcOffset |-> 0]

\* new Date() or new Date(y, m, d, hour) in a process utcOffset hours east
\* of UTC.
localDate(y, m, d, hour, utcOffset) ==
  [y |-> y, m |-> m, d |-> d, hour |-> hour, utcOffset |-> utcOffset]

\* Date.getDay, of the local calendar date: 0 is Sunday; 1 January 2024 was
\* a Monday.
getDay(date) == (dayNumber(date) + 1) % 7

getDate(date) == date.d

\* Date.getMonth counts from 0.
getMonth(date) == date.m - 1

\* tomorrow.setDate(today.getDate() + 1)
nextDay(date) ==
  IF date.d < daysInMonth(date.y, date.m) THEN [date EXCEPT !.d = date.d + 1]
  ELSE IF date.m < 12 THEN [date EXCEPT !.m = date.m + 1, !.d = 1]
  ELSE [date EXCEPT !.y = date.y + 1, !.m = 1, !.d = 1]

\* shouldRunToday gives [threw, value]: threw tells that an Error was thrown
\* instead of a boolean being returned.
Returned(b) == [threw |-> FALSE, value |-> b]

Threw == [threw |-> TRUE, value |-> FALSE]

shouldRunToday(cfg, day) ==
  LET schedule == cfg.schedule
  IN IF schedule.type = "bi-weekly-sunday" THEN
       IF getDay(day) # 0 THEN Returned(FALSE)
       ELSE IF schedule.startDate = <<>> THEN Threw
       ELSE LET weeksSinceStart ==
                  (getTime(day) - getTime(parseDate(schedule.startDate[1])))
                    \div (7 * 24)
            IN Returned(weeksSinceStart % 2 = 0)
     ELSE IF schedule.type = "weekly-sunday" THEN Returned(getDay(day) = 0)
     ELSE IF schedule.type = "monthly-first" THEN Returned(getDate(day) = 1)
     ELSE IF schedule.type = "monthly-last" THEN
       Returned(getMonth(nextDay(day)) # getMonth(day))
     ELSE IF schedule.type = "custom" THEN Threw
     ELSE Returned(FALSE)

getEnabledConfigs(all) == SelectSeq(all, LAMBDA inv : inv.enabled)

\* enabled.filter(config => shouldRunToday(config, today)): an Error thrown
\* for one element ends the filter and leaves getConfigsToRunToday.
getConfigsToRunToday(all, day) ==
  LET enabled == getEnabledConfigs(all)
  IN IF \E i \in 1..Len(enabled) : shouldRunToday(enabled[i], day).threw
     THEN [threw |-> TRUE, value |-> <<>>]
     ELSE [threw |-> FALSE,
           value |-> SelectSeq(enabled,
                               LAMBDA c : shouldRunToday(c, day).value)]

Schedules ==
  { [type |-> "bi-weekly-sunday", startDate |-> <<>>],
    [type |-> "bi-weekly-sunday", startDate |-> << [y |-> 2024, m |-> 9, d |-> 15] >>],
    [type |-> "weekly-sunday", startDate |-> <<>>],
    [type |-> "monthly-first", startDate |-> <<>>],
    [type |-> "monthly-last", startDate |-> <<>>],
    [type |-> "custom", startDate |-> <<>>] }

ConfigIds == <<"acme", "globex", "initech">>

\* The invoices array of the config file: ids follow the position.
ConfigFiles ==
  UNION { { [i \in 1..n |-> [id |-> ConfigIds[i], enabled |-> en[i],
                              schedule |-> sc[i]]] :
            en \in [1..n -> BOOLEAN], sc \in [1..n -> Schedules] } :
          n \in 0..MaxConfigs }

\* The pass starts at 9 in the morning (setup-scheduler.sh) of Sunday
\* 1 September, Sunday 15 September, Sunday 22 September, Monday
\* 30 September or Tuesday 1 October 2024, in a zone 5 hours west or
\* 10 hours east of UTC.
SchedDays ==
  { localDate(2024, md[1], md[2], 9, off) :
      md \in { <<9, 1>>, <<9, 15>>, <<9, 22>>, <<9, 30>>, <<10, 1>> },
      off \in { -5, 10 } }

Entry(kind, id) == [kind |-> kind, id |-> id]

SchedInit ==
  /\ FnIdle
  /\ GenIdle
  /\ CliIdle
  /\ schedPc = "start"
  /\ invoices \in ConfigFiles
  /\ today \in SchedDays
  /\ configsToRun = <<>>
  /\ cfgIdx = 0
  /\ log = <<>>
  /\ exitCode = <<>>

\* runScheduledInvoice 81-84
fatal(message) ==
  /\ log' = log \o << Entry("Starting scheduled invoice checker...", ""),
                      Entry("Today", ""),
                      Entry("FATAL ERROR", message) >>
  /\ exitCode' = <<1>>
  /\ schedPc' = "exited"
  /\ UNCHANGED <<configsToRun, cfgIdx>>

\* runScheduledInvoice 21-35: the configurations to run today are asked
\* for; the config file may be missing.
GetConfigs ==
  /\ schedPc = "start"
  /\ \E fileExists \in BOOLEAN :
       IF ~ fileExists THEN fatal("Config file not found")
       ELSE LET r == getConfigsToRunToday(invoices, today)
            IN IF r.threw THEN fatal("schedule")
               ELSE IF Len(r.value) = 0
               THEN /\ log' = log \o
                         << Entry("Starting scheduled invoice checker...", ""),
                            Entry("Today", ""),
                            Entry("No invoices scheduled for today", "") >>
                    /\ schedPc' = "returned"
                    /\ UNCHANGED <<configsToRun, cfgIdx, exitCode>>
               ELSE /\ log' = log \o
                         << Entry("Starting scheduled invoice checker...", ""),
                            Entry("Today", ""),
                            Entry("Found", "") >>
                    /\ configsToRun' = r.value
                    /\ cfgIdx' = 1
                    /\ schedPc' = "loop"
                    /\ UNCHANGED exitCode
  /\ UNCHANGED <<invoices, today, fnVars, genVars, cliVars>>

GenerationOutcomes == {"ok", "null", "throws"}

EmailOutcomes == {"success", "failure", "throws"}

\* runScheduledInvoice 40-72: what one configuration writes to the log.
processingLog(cfg, generation, email) ==
  << Entry("Processing invoice", cfg.id), Entry("Generating invoice...", cfg.id) >>
  \o (IF generation = "null"
        THEN << Entry("ERROR: Failed to generate invoice", cfg.id) >>
      ELSE IF generation = "throws" THEN <<>>
      ELSE << Entry("Invoice generated successfully", cfg.id),
              Entry("Sending invoice email...", cfg.id) >>
           \o (IF email = "success"
                 THEN << Entry("Invoice email sent successfully", cfg.id) >>
               ELSE IF email = "failure"
                 THEN << Entry("ERROR: Failed to send email", cfg.id) >>
               ELSE <<>>))

\* An Error was thrown inside the body of the loop.
threwInLoop(generation, email) ==
  generation = "throws" \/ (generation = "ok" /\ email = "throws")

caughtInLoop_generationOnly(generation, email) == generation = "throws"

\* runScheduledInvoice 39, 74-76: the try inside the loop catches every
\* Error thrown by the generation or by the email send.
caughtInLoop(generation, email) == threwInLoop(generation, email)

\* runScheduledInvoice 59-66: the message the pass hands to the email
\* sender once the invoice is generated; testMode is false. The pass calls
\* neither saveInvoice nor markInvoiceAsSent.
scheduledMail(box, cfg, generation, email) ==
  IF generation = "ok" /\ email # "throws"
  THEN Append(box, [configId |-> cfg.id, testMode |-> FALSE,
                    delivered |-> email = "success"])
  ELSE box

\* runScheduledInvoice 38-77: one configuration is processed.
ProcessConfig ==
  /\ schedPc = "loop"
  /\ cfgIdx <= Len(configsToRun)
  /\ \E generation \in GenerationOutcomes, email \in EmailOutcomes :
       LET cfg == configsToRun[cfgIdx]
           written == processingLog(cfg, generation, email)
       IN /\ outbox' = scheduledMail(outbox, cfg, generation, email)
          /\ IF ~ threwInLoop(generation, email)
             THEN /\ log' = log \o written
                  /\ cfgIdx' = cfgIdx + 1
                  /\ UNCHANGED <<schedPc, exitCode>>
             ELSE IF caughtInLoop(generation, email)
             THEN /\ log' = log \o written \o << Entry("ERROR processing", cfg.id) >>
                  /\ cfgIdx' = cfgIdx + 1
                  /\ UNCHANGED <<schedPc, exitCode>>
             ELSE /\ log' = log \o written \o << Entry("FATAL ERROR", cfg.id) >>
                  /\ exitCode' = <<1>>
                  /\ schedPc' = "exited"
                  /\ UNCHANGED cfgIdx
  /\ UNCHANGED <<invoices, today, configsToRun, fnVars, genVars,
                 cliPc, savedInvoice, store, clock, console>>

\* runScheduledInvoice 79
Complete ==
  /\ schedPc = "loop"
  /\ cfgIdx > Len(configsToRun)
  /\ log' = Append(log, Entry("=== Scheduler run completed ===", ""))
  /\ schedPc' = "done"
  /\ UNCHANGED <<invoices, today, configsToRun, cfgIdx, exitCode, fnVars, genVars, cliVars>>

SchedNext ==
  \/ GetConfigs
  \/ ProcessConfig
  \/ Complete

SchedSpec == SchedInit /\ [][SchedNext]_vars

\* The pass is one sequence of awaited calls: a step that can be taken is
\* taken.
FairSchedSpec == SchedSpec /\ WF_vars(SchedNext)

\* ------------------------------------------------------------------------
\* RunSpec: shouldRunToday called for one configuration and one Date
\* ------------------------------------------------------------------------
\* February of a leap year and of a common year, a month of 30 days, the
\* weeks around the start date of the schedules, the turn of the year.
RunMonths ==
  { <<2024, 2>>, <<2024, 4>>, <<2024, 9>>, <<2024, 10>>, <<2024, 12>>,
    <<2025, 1>>, <<2025, 2>> }

\* Midnight, the hour of the scheduler, the last hour of the day.
RunHours == { 0, 9, 23 }

\* Zones west of UTC, at UTC and east of UTC.
RunOffsets == { -5, 0, 10 }

RunDates ==
  UNION { { localDate(ym[1], ym[2], d, h, off) :
              d \in 1..daysInMonth(ym[1], ym[2]), h \in RunHours, off \in RunOffsets } :
          ym \in RunMonths }

RunInit ==
  /\ call \in { [fn |-> "shouldRunToday",
                 config |-> [id |-> ConfigIds[1], enabled |-> TRUE, schedule |-> s],
                 today |-> t] :
                 s \in Schedules, t \in RunDates }
  /\ ret = <<>>
  /\ GenIdle
  /\ SchedIdle
  /\ CliIdle

RunCall ==
  /\ ret = <<>>
  /\ ret' = << shouldRunToday(call.config, call.today) >>
  /\ UNCHANGED <<call, genVars, schedVars, cliVars>>

RunNext == RunCall

RunSpec == RunInit /\ [][RunNext]_vars

\* ------------------------------------------------------------------------
\* sendInvoiceEmail and sendInvoiceEmailFromConfig (email-sender.ts)
\* ------------------------------------------------------------------------
TestAddress == "b@stokedconsulting.com"

DefaultRecipients == << "brianstoker+tony@gmail.com", "brianstoker+chris@gmail.com" >>

DefaultCc == << "brianstoker@gmail.com" >>

\* An optional array of the options is <<>> when undefined and <<array>>
\* when given; an empty array is given, and truthy.
orElse(optional, default) == IF optional = <<>> THEN default ELSE optional[1]

testModeMail_keepBcc == [to |-> << TestAddress >>, cc |-> <<>>, bcc |-> << TestAddress >>]

\* sendInvoiceEmail 71-73
testModeMail == [to |-> << TestAddress >>, cc |-> <<>>, bcc |-> <<>>]

\* sendInvoiceEmail 66-89: the recipients of the message.
mailRecipients(emailOptions) ==
  IF emailOptions.testMode THEN testModeMail
  ELSE IF emailOptions.recipients # <<>>
  THEN [to |-> emailOptions.recipients[1],
        cc |-> orElse(emailOptions.cc, <<>>),
        bcc |-> orElse(emailOptions.bcc, << TestAddress >>)]
  ELSE [to |-> DefaultRecipients, cc |-> DefaultCc, bcc |-> << TestAddress >>]

\* What the environment decides for one call of sendInvoiceEmail: whether
\* GMAIL_APP_PASSWORD is set and whether transporter.sendMail succeeds.
MailOutcomes == { "noPassword", "sent", "sendMailError" }

\* sendInvoiceEmail 44-214: the EmailResult.
emailResult(outcome) == [success |-> outcome = "sent"]

\* sendInvoiceEmail 180-213: the messages handed to transporter.sendMail
\* after this call.
handedToSendMail(box, emailOptions, outcome) ==
  IF outcome = "noPassword" THEN box
  ELSE Append(box, mailRecipients(emailOptions) @@
                   [testMode |-> emailOptions.testMode, delivered |-> outcome = "sent"])

\* sendInvoiceEmailFromConfig 238-261: the options passed on.
optionsFromConfig(cfg, testMode) ==
  [testMode |-> testMode,
   recipients |-> << cfg.email.to >>,
   cc |-> cfg.email.cc,
   bcc |-> cfg.email.bcc]

\* ------------------------------------------------------------------------
\* EmailSpec: one call of sendInvoiceEmail
\* ------------------------------------------------------------------------
CustomerAddresses == { "ap@acme.example", "cfo@acme.example" }

AddressLists == { <<>>, << "ap@acme.example" >>, << "ap@acme.example", "cfo@acme.example" >>,
                  << TestAddress >> }

OptionalLists == { <<>> } \cup { << l >> : l \in AddressLists }

EmailInit ==
  /\ call \in { [fn |-> "sendInvoiceEmail",
                 options |-> [testMode |-> t, recipients |-> r, cc |-> c, bcc |-> b]] :
                 t \in BOOLEAN, r \in OptionalLists, c \in OptionalLists,
                 b \in OptionalLists }
  /\ ret = <<>>
  /\ GenIdle
  /\ SchedIdle
  /\ CliIdle

EmailCall ==
  /\ ret = <<>>
  /\ \E outcome \in MailOutcomes :
       /\ ret' = << emailResult(outcome) >>
       /\ outbox' = handedToSendMail(outbox, call.options, outcome)
  /\ UNCHANGED <<call, genVars, schedVars, cliPc, savedInvoice, store, clock, console>>

EmailNext == EmailCall

EmailSpec == EmailInit /\ [][EmailNext]_vars

\* ------------------------------------------------------------------------
\* The saved-invoice store (invoice-storage.ts)
\* ------------------------------------------------------------------------
\* generateInvoiceId 27-30: `${configId}-${timestamp}`
generateInvoiceId(configId, now) == << configId, now >>

\* saveInvoice 42-56: the record written.
SavedInvoice(configId, data, now) ==
  [id |-> generateInvoiceId(configId, now),
   configId |-> configId,
   generatedAt |-> now,
   sentAt |-> <<>>,
   invoiceData |-> data]

\* saveInvoice 52-53: writeFileSync on the path of the id; a file of the
\* same id is overwritten.
writeInvoice(files, saved) ==
  IF \E i \in 1..Len(files) : files[i].id = saved.id
  THEN [i \in 1..Len(files) |-> IF files[i].id = saved.id THEN saved ELSE files[i]]
  ELSE Append(files, saved)

\* markInvoiceAsSent 61-72
markInvoiceAsSent(files, id, now) ==
  [i \in 1..Len(files) |->
     IF files[i].id = id THEN [files[i] EXCEPT !.sentAt = << now >>] ELSE files[i]]

\* loadInvoice 77-85
loadInvoice(files, id) ==
  files[CHOOSE i \in 1..Len(files) : files[i].id = id]

\* deleteInvoice 121-127
deleteInvoice(files, id) == SelectSeq(files, LAMBDA f : f.id # id)

\* listInvoices 98-101: JSON.parse of the file gives a saved invoice; a file
\* that does not parse is a record of its name alone.
parses(file) == "configId" \in DOMAIN file

newerFirst_reversed(a, b) == a.generatedAt < b.generatedAt

\* listInvoices 113: the comparator puts a before b when a is the newer.
newerFirst(a, b) == a.generatedAt > b.generatedAt

RECURSIVE insertNewestFirst(_, _)
insertNewestFirst(sorted, inv) ==
  IF sorted = <<>> THEN << inv >>
  ELSE IF newerFirst(inv, Head(sorted)) THEN << inv >> \o sorted
  ELSE << Head(sorted) >> \o insertNewestFirst(Tail(sorted), inv)

RECURSIVE sortNewestFirst(_)
sortNewestFirst(list) ==
  IF list = <<>> THEN <<>>
  ELSE insertNewestFirst(sortNewestFirst(SubSeq(list, 1, Len(list) - 1)), list[Len(list)])

\* listInvoices 90-116: configId is <<>> when the argument is not given.
listInvoices(files, configId) ==
  sortNewestFirst(SelectSeq(files, LAMBDA file :
    parses(file) /\ (configId = <<>> \/ file.configId = configId[1])))

\* ------------------------------------------------------------------------
\* CliSpec: one invocation of the default command (cli.ts 80-357)
\* ------------------------------------------------------------------------
\* getConfigById (config-loader.ts): the configuration of that id, if any.
getConfigById(configs, id) ==
  IF \E i \in 1..Len(configs) : configs[i].id = id
  THEN << configs[CHOOSE i \in 1..Len(configs) : configs[i].id = id] >>
  ELSE <<>>

CliConfig(id, to, cc, bcc) ==
  [id |-> id, email |-> [to |-> to, cc |-> cc, bcc |-> bcc]]

CliConfigFiles ==
  { << CliConfig("acme", << "ap@acme.example" >>, <<>>, <<>>) >>,
    << CliConfig("acme", << "ap@acme.example", "cfo@acme.example" >>,
                 << << "cfo@acme.example" >> >>, << << TestAddress >> >>),
       CliConfig("globex", << "ap@acme.example" >>, << <<>> >>, << <<>> >>) >> }

CliConfigIds == { <<>>, << "acme" >>, << "globex" >>, << "initech" >> }

CliOptions ==
  [test : BOOLEAN, send : BOOLEAN, sendExisting : BOOLEAN, list : BOOLEAN]

\* What generateInvoiceFromConfig gives the command: its text and hours.
InvoiceData(customer) == [customer |-> customer, totalHours |-> DefaultHoursPerWeek]

\* The store before the invocation: files of earlier invocations.
InitialStores ==
  { <<>>,
    << SavedInvoice("acme", InvoiceData("acme"), 1) >>,
    << SavedInvoice("acme", InvoiceData("acme"), 1),
       [SavedInvoice("acme", InvoiceData("acme"), 2) EXCEPT !.sentAt = << 2 >>] >>,
    << SavedInvoice("globex", InvoiceData("globex"), 2) >> }

\* What the operator types at 'Send invoice? (y/n)'.
Answers == { "y", "Y", "yes", "Yes", "YES", "n", "no", "", "ok", "yes please" }

said(kind, text) == [kind |-> kind, text |-> text]

CliInit ==
  /\ call \in { [fn |-> "invoice-gen", configId |-> id, options |-> o, configs |-> f] :
                 id \in CliConfigIds, o \in CliOptions, f \in CliConfigFiles }
  /\ ret = <<>>
  /\ GenIdle
  /\ SchedIdle
  /\ cliPc = "start"
  /\ savedInvoice = <<>>
  /\ store \in InitialStores
  /\ outbox = <<>>
  /\ clock = 3
  /\ console = <<>>

exit(code) == IF code = 0 THEN "exit 0" ELSE "exit 1"

\* cli.ts 95-115, 228-248: what the command does before its first await.
Dispatch ==
  /\ cliPc = "start"
  /\ LET found == IF call.configId = <<>> THEN <<>>
                  ELSE getConfigById(call.configs, call.configId[1])
     IN IF call.options.sendExisting
        THEN IF call.configId = <<>>
             THEN /\ cliPc' = exit(1)
                  /\ console' = Append(console, said("error", "Config ID required"))
             ELSE IF found = <<>>
             THEN /\ cliPc' = exit(1)
                  /\ console' = Append(console, said("error", "not found"))
             ELSE IF listInvoices(store, call.configId) = <<>>
             THEN /\ cliPc' = exit(0)
                  /\ console' = Append(console, said("log", "No saved invoices found"))
             ELSE /\ cliPc' = "selectInvoice"
                  /\ console' = Append(console, said("log", "Saved Invoices"))
        ELSE IF call.options.list \/ call.configId = <<>>
        THEN /\ cliPc' = "returned"
             /\ console' = Append(console, said("log", "Available Invoice Configurations"))
        ELSE IF found = <<>>
        THEN /\ cliPc' = exit(1)
             /\ console' = Append(console, said("error", "not found"))
        ELSE /\ cliPc' = "generate"
             /\ console' = Append(console, said("log", "Generating invoice"))
  /\ UNCHANGED <<fnVars, genVars, schedVars, savedInvoice, store, outbox, clock>>

displayOnly_off(o) == FALSE

\* cli.ts 275
displayOnly(o) == ~o.test /\ ~o.send

afterDisplay_sendFirst(o) ==
  IF displayOnly(o) THEN "returned"
  ELSE IF o.send THEN "confirmSend"
  ELSE "sendTest"

\* cli.ts 275-304: where the command goes after the display.
afterDisplay(o) ==
  IF displayOnly(o) THEN "returned"
  ELSE IF o.test THEN "sendTest"
  ELSE "confirmSend"

\* cli.ts 255-281: generateInvoiceFromConfig, saveInvoice, the display.
Generate ==
  /\ cliPc = "generate"
  /\ \E generation \in GenerationOutcomes, tick \in 0..1 :
       IF generation = "ok"
       THEN LET saved == SavedInvoice(call.configId[1],
                                      InvoiceData(call.configId[1]), clock + tick)
            IN /\ clock' = clock + tick
               /\ store' = writeInvoice(store, saved)
               /\ savedInvoice' = << saved >>
               /\ console' = console \o
                    << said("invoice", saved.invoiceData), said("log", "Invoice saved") >>
                    \o (IF displayOnly(call.options)
                        THEN << said("log", "no email sent") >> ELSE <<>>)
               /\ cliPc' = afterDisplay(call.options)
       ELSE /\ cliPc' = exit(1)
            /\ console' = Append(console, said("error", "Failed to generate invoice"))
            /\ UNCHANGED <<clock, store, savedInvoice>>
  /\ UNCHANGED <<fnVars, genVars, schedVars, outbox>>

\* cli.ts 284-301: --test
SendTest ==
  /\ cliPc = "sendTest"
  /\ \E outcome \in MailOutcomes :
       /\ outbox' = handedToSendMail(outbox,
                      optionsFromConfig(getConfigById(call.configs, call.configId[1])[1],
                                        TRUE), outcome)
       /\ cliPc' = IF emailResult(outcome).success THEN "returned" ELSE exit(1)
       /\ console' = Append(console,
                        IF emailResult(outcome).success
                        THEN said("log", "Test invoice sent")
                        ELSE said("error", "Failed to send email"))
  /\ UNCHANGED <<fnVars, genVars, schedVars, savedInvoice, store, clock>>

affirmative_notNo(answer) == toLowerCase(answer) # "n"

\* cli.ts 331
affirmative(answer) == toLowerCase(answer) = "y" \/ toLowerCase(answer) = "yes"

\* cli.ts 304-334: --send, the confirmation prompt.
ConfirmSend ==
  /\ cliPc = "confirmSend"
  /\ \E answer \in Answers :
       /\ console' = console \o
            << said("prompt", "Send invoice? (y/n)"), said("answer", answer) >>
            \o (IF affirmative(answer) THEN <<>>
                ELSE << said("log", "Invoice send cancelled") >>)
       /\ cliPc' = IF affirmative(answer) THEN "sendCustomers" ELSE "returned"
  /\ UNCHANGED <<fnVars, genVars, schedVars, savedInvoice, store, outbox, clock>>

\* cli.ts 336-352 and 205-222: the email with testMode as given, and the
\* mark on the saved invoice after a production send that succeeded.
sendSaved(testMode, done) ==
  \E outcome \in MailOutcomes, tick \in 0..1 :
    /\ outbox' = handedToSendMail(outbox,
                   optionsFromConfig(getConfigById(call.configs, call.configId[1])[1],
                                     testMode), outcome)
    /\ clock' = clock + tick
    /\ store' = IF emailResult(outcome).success /\ ~testMode
                THEN markInvoiceAsSent(store, savedInvoice[1].id, clock + tick)
                ELSE store
    /\ cliPc' = IF emailResult(outcome).success THEN done ELSE exit(1)
    /\ console' = Append(console,
                     IF emailResult(outcome).success
                     THEN said("log", "Invoice sent successfully")
                     ELSE said("error", "Failed to send email"))

\* cli.ts 336-352: --send after the confirmation.
SendCustomers ==
  /\ cliPc = "sendCustomers"
  /\ sendSaved(FALSE, "returned")
  /\ UNCHANGED <<fnVars, genVars, schedVars, savedInvoice>>

\* cli.ts 116-157: --send-existing, the choice of the saved invoice.
SelectInvoice ==
  /\ cliPc = "selectInvoice"
  /\ LET savedInvoices == listInvoices(store, call.configId)
     IN \/ /\ cliPc' = exit(0)
           /\ console' = Append(console, said("answer", "cancel"))
           /\ UNCHANGED savedInvoice
        \/ \E i \in 1..Len(savedInvoices) :
             /\ savedInvoice' = << loadInvoice(store, savedInvoices[i].id) >>
             /\ console' = console \o
                  << said("answer", "select"),
                     said("invoice", savedInvoices[i].invoiceData) >>
             /\ cliPc' = "chooseAction"
  /\ UNCHANGED <<fnVars, genVars, schedVars, store, outbox, clock>>

\* cli.ts 160-178: --send-existing, the choice of the action.
ChooseAction ==
  /\ cliPc = "chooseAction"
  /\ \E action \in { "test", "send", "cancel" } :
       /\ console' = console \o
            << said("prompt", "What would you like to do?"), said("answer", action) >>
       /\ cliPc' = IF action = "cancel" THEN exit(0)
                   ELSE IF action = "test" THEN "sendExistingTest"
                   ELSE "confirmExisting"
  /\ UNCHANGED <<fnVars, genVars, schedVars, savedInvoice, store, outbox, clock>>

\* cli.ts 181-202: --send-existing, the confirmation of a production send.
ConfirmExisting ==
  /\ cliPc = "confirmExisting"
  /\ \E confirm \in BOOLEAN :
       /\ console' = console \o
            << said("prompt", "Send invoice to customers?"),
               said("answer", IF confirm THEN "confirm" ELSE "decline") >>
       /\ cliPc' = IF confirm THEN "sendExistingCustomers" ELSE exit(0)
  /\ UNCHANGED <<fnVars, genVars, schedVars, savedInvoice, store, outbox, clock>>

\* cli.ts 205-224: --send-existing, the email.
SendExisting ==
  /\ cliPc \in { "sendExistingTest", "sendExistingCustomers" }
  /\ sendSaved(cliPc = "sendExistingTest", "returned")
  /\ UNCHANGED <<fnVars, genVars, schedVars, savedInvoice>>

CliNext ==
  \/ Dispatch
  \/ Generate
  \/ SendTest
  \/ ConfirmSend
  \/ SendCustomers
  \/ SelectInvoice
  \/ ChooseAction
  \/ ConfirmExisting
  \/ SendExisting

CliSpec == CliInit /\ [][CliNext]_vars

\* ------------------------------------------------------------------------
\* StoreSpec: a sequence of calls of the invoice store
\* ------------------------------------------------------------------------
MaxStoreCalls == 3

StoreConfigIds == { "acme", "globex" }

\* The .invoices directory before the first call: empty, or holding one
\* .json file that is not a saved invoice.
StoreInit ==
  /\ call = <<>>            \* the calls made so far, in order
  /\ ret = <<>>             \* << the last result of listInvoices >>
  /\ GenIdle
  /\ SchedIdle
  /\ cliPc = "idle"
  /\ savedInvoice = <<>>
  /\ store \in { <<>>, << [id |-> << "notes", 0 >>] >> }
  /\ outbox = <<>>
  /\ clock = 1
  /\ console = <<>>

\* saveInvoice 42-56: the id and generatedAt are two readings of the clock,
\* which may have advanced since the call before and between the two.
Save ==
  /\ Len(call) < MaxStoreCalls
  /\ \E configId \in StoreConfigIds, tick \in 0..1, late \in 0..1 :
       LET now == clock + tick
           saved == [SavedInvoice(configId, InvoiceData(configId), now)
                       EXCEPT !.generatedAt = now + late]
       IN /\ store' = writeInvoice(store, saved)
          /\ clock' = now + late
          /\ call' = Append(call, [fn |-> "saveInvoice", configId |-> configId,
                                   id |-> saved.id])
  /\ UNCHANGED <<ret, genVars, schedVars, cliPc, savedInvoice, outbox, console>>

\* markInvoiceAsSent 61-72: throws when the file is missing or does not
\* parse, and writes nothing then.
MarkSent ==
  /\ Len(call) < MaxStoreCalls
  /\ \E i \in 1..Len(store) :
       /\ store' = IF parses(store[i])
                   THEN markInvoiceAsSent(store, store[i].id, clock)
                   ELSE store
       /\ call' = Append(call, [fn |-> "markInvoiceAsSent", id |-> store[i].id])
  /\ UNCHANGED <<ret, genVars, schedVars, cliPc, savedInvoice, outbox, clock, console>>

\* deleteInvoice 121-127
Delete ==
  /\ Len(call) < MaxStoreCalls
  /\ \E i \in 1..Len(store) :
       /\ store' = deleteInvoice(store, store[i].id)
       /\ call' = Append(call, [fn |-> "deleteInvoice", id |-> store[i].id])
  /\ UNCHANGED <<ret, genVars, schedVars, cliPc, savedInvoice, outbox, clock, console>>

\* listInvoices 90-116, with or without the argument.
List ==
  /\ \E configId \in { <<>> } \cup { << c >> : c \in StoreConfigIds } :
       /\ ret' = << [configId |-> configId, invoices |-> listInvoices(store, configId)] >>
       /\ console' = IF \E i \in 1..Len(store) : ~parses(store[i])
                     THEN << said("error", "Failed to load invoice") >>
                     ELSE <<>>
  /\ UNCHANGED <<call, genVars, schedVars, cliPc, savedInvoice, store, outbox, clock>>

StoreNext ==
  \/ Save
  \/ MarkSent
  \/ Delete
  \/ List

StoreSpec == StoreInit /\ [][StoreNext]_vars

\* ------------------------------------------------------------------------
\* Claims about distributeHours
\* ------------------------------------------------------------------------
\* C1: when the tasks handed to distributeHours hold at least one commit, the
\* hours of the tasks it returns sum exactly to the hour budget, for any
\* number of tasks and any commit counts.
C1_HoursSumToBudget ==
  (ret # <<>> /\ SumCommits(call.tasks) > 0)
    => SumHours(ret[1]) = call.totalHours

\* C1 witness: four single-commit tasks share one hour; the proportional
\* shares round up to more than the budget, so the clamp and the remainder
\* both act.
C1_Witness ==
  /\ ret # <<>>
  /\ Len(call.tasks) = 4
  /\ \A i \in 1..4 : call.tasks[i].commits = 1
  /\ call.totalHours = 4
  /\ Len(ret[1]) = 2

\* C9: distributeHours never returns a task whose hours are 0,
\* whatever the tasks and the budget.
C9_NoZeroHourTask ==
  ret # <<>> => \A i \in 1..Len(ret[1]) : ret[1][i].hours # 0

\* The multiple of half an hour nearest to num / den quarter hours, the
\* upper one when two are equally near.
NearestHalf(num, den) ==
  CHOOSE r \in { 2 * k : k \in 0..((num \div den) + 1) } :
    (r - 1) * den <= num /\ num < (r + 1) * den

RECURSIVE ExpectedHours(_)
RECURSIVE AllottedBefore(_)
\* The hours the allocation rule gives to task i of the call.
ExpectedHours(i) ==
  LET remaining == call.totalHours - AllottedBefore(i)
  IN IF i = Len(call.tasks) THEN remaining
     ELSE Min(NearestHalf(call.totalHours * call.tasks[i].commits,
                          SumCommits(call.tasks)),
              remaining)

AllottedBefore(i) ==
  IF i = 1 THEN 0 ELSE AllottedBefore(i - 1) + ExpectedHours(i - 1)

\* C12: when the tasks hold at least one commit, distributeHours returns the
\* tasks in their given order, each task but the last with the lesser of its
\* share rounded to the nearest half hour and the budget that remains, the
\* last with all that remains (tasks left with no hours are not returned);
\* commit counts 7 and 3 with 30 hours give 21 and 9 hours.
C12_ProportionalAllocation ==
  (ret # <<>> /\ SumCommits(call.tasks) > 0)
    => /\ ret[1] = SelectSeq([i \in 1..Len(call.tasks) |->
                                [call.tasks[i] EXCEPT !.hours = ExpectedHours(i)]],
                             LAMBDA t : t.hours > 0)
       /\ ([i \in 1..Len(call.tasks) |-> call.tasks[i].commits] = <<7, 3>>
           /\ call.totalHours = DefaultHoursPerWeek)
            => [i \in 1..Len(ret[1]) |-> ret[1][i].hours] = <<84, 36>>

\* C12 witness: the call with commit counts 7 and 3 and 30 hours has
\* returned 21 and 9 hours.
C12_Witness ==
  /\ ret # <<>>
  /\ [i \in 1..Len(call.tasks) |-> call.tasks[i].commits] = <<7, 3>>
  /\ call.totalHours = DefaultHoursPerWeek
  /\ Len(ret[1]) = 2
  /\ ret[1][1].hours = 84
  /\ ret[1][2].hours = 36

\* The hours distributeHours gave to task i of the call; a task that was
\* not returned has none.
HoursGiven(i) ==
  IF \E k \in 1..Len(ret[1]) : ret[1][k].description = call.tasks[i].description
  THEN ret[1][CHOOSE k \in 1..Len(ret[1]) :
                ret[1][k].description = call.tasks[i].description].hours
  ELSE 0

\* The tasks as categorizeCommits hands them over: most commits first.
MostCommitsFirst ==
  \A i \in 1..(Len(call.tasks) - 1) : call.tasks[i].commits >= call.tasks[i + 1].commits

\* C28: in the heuristic allocation of one week, a category with strictly
\* more commits than another never receives fewer hours than that other.
C28_HoursMonotoneInCommits ==
  (ret # <<>> /\ call.fn = "distributeHours" /\ MostCommitsFirst) =>
    \A i, j \in 1..Len(call.tasks) :
      call.tasks[i].commits > call.tasks[j].commits => HoursGiven(i) >= HoursGiven(j)

\* ------------------------------------------------------------------------
\* Claims about getCommitCategory
\* ------------------------------------------------------------------------
KeywordRules ==
  << {"fix", "bug", "error"}, {"feat", "add", "implement"},
     {"refactor", "clean", "optimize"}, {"test", "spec"}, {"doc", "readme"},
     {"ui", "style", "css"}, {"data", "database", "migration"},
     {"api", "endpoint", "route"}, {"deploy", "build", "ci"}, {"fax"},
     {"dashboard", "insight", "report"}, {"transfer", "patient"} >>

RuleMatches(i, msg) == \E k \in KeywordRules[i] : includes(msg, k)

\* C10: the category is the label of the first of the 12 keyword rules one
\* of whose keywords occurs in the lower-cased message, and it is the
\* general label if and only if no rule matches.
C10_FirstMatchingRuleWins ==
  ret # <<>> =>
    LET msg == toLowerCase(call.message)
        hits == {i \in 1..12 : RuleMatches(i, msg)}
    IN /\ hits # {} =>
            ret[1] = CategoryLabels[CHOOSE i \in hits : \A j \in hits : i <= j]
       /\ (ret[1] = CategoryLabels[13]) <=> (hits = {})

\* C10 witness: a message holding both "fix" and "feat" is a bug fix.
C10_Witness ==
  /\ ret # <<>>
  /\ call.message = "feat Fix"
  /\ ret[1] = "Bug fixes and error resolution"

\* ------------------------------------------------------------------------
\* Claims about analyzeWeekWithCommits (WeekSpec)
\* ------------------------------------------------------------------------
RemoteLabels == { githubRepoLabel(RemoteRepos[i]) : i \in 1..Len(RemoteRepos) }

RemoteRecords == { i \in 1..Len(weekCommits) : weekCommits[i].repo \in RemoteLabels }

LocalRecords == { i \in 1..Len(weekCommits) : weekCommits[i].repo \notin RemoteLabels }

LocalConsulted ==
  \/ pc \in {"resolve", "search", "local"}
  \/ (lastSource # <<>> /\ lastSource[1].kind \in {"glob", "search", "local"})

\* C2: within one week's analysis a local source is consulted only when the
\* remotes accumulated no record, and the week's commits never hold both
\* remote and local records.
C2_LocalOnlyAfterEmptyRemotes ==
  /\ LocalConsulted => RemoteRecords = {}
  /\ ~ (RemoteRecords # {} /\ LocalRecords # {})

\* C2 witness: two remotes and local patterns are configured, the first
\* remote gave a record, the second failed, and the week was returned
\* without any local source having been consulted.
C2_Witness ==
  /\ pc = "returned"
  /\ lastSource # <<>>
  /\ Len(options.githubRepos) = 2
  /\ Len(options.repoPaths) > 0
  /\ lastSource[1].kind = "remote"
  /\ lastSource[1].failed
  /\ weekCommits # <<>>

SourceStep ==
  \/ repoIdx' # repoIdx
  \/ patIdx' # patIdx
  \/ dirIdx' # dirIdx
  \/ pc = "search"

HeuristicWeeks ==
  [i \in 1..Len(weekLog) |->
     weekWork(addWeeks(startDate, i - 1), endOfWeek(addWeeks(startDate, i - 1)),
              options.hoursPerWeek, weekLog[i])]

AIFailed == \E i \in 1..Len(aiLog) : aiLog[i].failed

\* C6: when a call of the AI service failed in Stage 1 or Stage 2, the
\* InvoiceData returned is the one built from the same commits without AI:
\* the same weeks, tasks, hours, text and totals.
C6_AIFailureKeepsHeuristic ==
  (pc = "returned" /\ AIFailed)
    => invoice[1] = invoiceData(options.customer, startDate, endDate, HeuristicWeeks)

\* C6 witness: Stage 1 answered, the Stage 2 call failed, and a two-week
\* invoice with commits was returned.
C6_Witness ==
  /\ pc = "returned"
  /\ Len(aiLog) = 2
  /\ aiLog[2].failed
  /\ Len(invoice[1].weeks) = 2
  /\ Len(allCommits) > 1

\* C7: in every InvoiceData returned, every week's task hours sum
\* to at most the week's totalHours.
C7_TaskHoursWithinWeekTotal ==
  pc = "returned" =>
    \A i \in 1..Len(invoice[1].weeks) :
      SumHours(invoice[1].weeks[i].tasks) <= invoice[1].weeks[i].totalHours

\* ------------------------------------------------------------------------
\* Claims about the scheduler pass (SchedSpec, FairSchedSpec)
\* ------------------------------------------------------------------------
Logged(kind, id) == \E k \in 1..Len(log) : log[k] = Entry(kind, id)

Unevaluable ==
  { i \in 1..Len(invoices) :
      invoices[i].enabled /\ shouldRunToday(invoices[i], today).threw }

DueToday ==
  { i \in 1..Len(invoices) :
      /\ invoices[i].enabled
      /\ ~ shouldRunToday(invoices[i], today).threw
      /\ shouldRunToday(invoices[i], today).value }

\* C3: when the pass has ended with the config file read and an
\* enabled configuration whose schedule cannot be evaluated, the process has
\* not made a fatal exit and every other enabled configuration due today was
\* processed.
C3_UnevaluableScheduleIsolated ==
  (/\ schedPc \in {"done", "returned", "exited"}
   /\ ~ Logged("FATAL ERROR", "Config file not found")
   /\ Unevaluable # {})
    => /\ exitCode = <<>>
       /\ \A i \in DueToday : Logged("Processing invoice", invoices[i].id)

ProcessedIds ==
  LET p == SelectSeq(log, LAMBDA e : e.kind = "Processing invoice")
  IN [i \in 1..Len(p) |-> p[i].id]

DueIds(n) == [i \in 1..n |-> configsToRun[i].id]

OutcomeLogged(id) ==
  \/ Logged("Invoice email sent successfully", id)
  \/ Logged("ERROR: Failed to generate invoice", id)
  \/ Logged("ERROR: Failed to send email", id)
  \/ Logged("ERROR processing", id)

PassCompleted ==
  /\ schedPc = "done"
  /\ exitCode = <<>>
  /\ ProcessedIds = DueIds(Len(configsToRun))
  /\ \A i \in 1..Len(configsToRun) : OutcomeLogged(configsToRun[i].id)
  /\ log[Len(log)] = Entry("=== Scheduler run completed ===", "")

\* C4: while the pass is in its loop over the configurations due today,
\* whatever failed for the configurations before the current one, they were
\* processed in order with their outcome logged and no fatal exit was made;
\* and the loop leads to the 'Scheduler run completed' step with every
\* configuration of the list processed.
C4_FailuresLoggedLoopContinues ==
  /\ [](schedPc = "loop" =>
          /\ exitCode = <<>>
          /\ ProcessedIds = DueIds(cfgIdx - 1)
          /\ \A i \in 1..(cfgIdx - 1) : OutcomeLogged(configsToRun[i].id))
  /\ (schedPc = "loop" ~> PassCompleted)

\* C4 witness: of two configurations due today the generation of the first
\* threw, the email of the second was sent, and the pass completed.
C4_Witness ==
  /\ schedPc = "done"
  /\ Len(configsToRun) = 2
  /\ Logged("ERROR processing", configsToRun[1].id)
  /\ ~ Logged("Invoice generated successfully", configsToRun[1].id)
  /\ Logged("Invoice email sent successfully", configsToRun[2].id)

\* ------------------------------------------------------------------------
\* Claims about categorizeCommits (GroupSpec)
\* ------------------------------------------------------------------------
LabelOf(i) == getCommitCategory(call.commits[i].message)

InputLabels == { LabelOf(i) : i \in 1..Len(call.commits) }

CountOf(label) == Cardinality({ i \in 1..Len(call.commits) : LabelOf(i) = label })

FirstSeen(label) ==
  CHOOSE i \in 1..Len(call.commits) :
    /\ LabelOf(i) = label
    /\ \A j \in 1..(i - 1) : LabelOf(j) # label

\* C11: categorizeCommits returns one entry per distinct label of the input,
\* each with the number of commits of that label (so the counts sum to the
\* number of commits), ordered by non-increasing count with equal counts in
\* the order in which the labels first occur; a second call on the same
\* list returns the same sequence.
C11_GroupedSortedStable ==
  ret # <<>> =>
    LET r == ret[1] IN
    /\ { r[i].description : i \in 1..Len(r) } = InputLabels
    /\ Len(r) = Cardinality(InputLabels)
    /\ \A i \in 1..Len(r) : r[i].commits = CountOf(r[i].description)
    /\ SumCommits(r) = Len(call.commits)
    /\ \A i \in 1..Len(r) : \A j \in (i + 1)..Len(r) :
         \/ r[i].commits > r[j].commits
         \/ /\ r[i].commits = r[j].commits
            /\ FirstSeen(r[i].description) < FirstSeen(r[j].description)
    /\ Len(ret) = 2 => ret[2] = ret[1]

\* C11 witness: the label seen last has the most commits and comes first;
\* the two labels with one commit each keep the order of their first
\* occurrence; the second call has returned.
C11_Witness ==
  /\ Len(ret) = 2
  /\ call.commits = << [message |-> "Bump version", repo |-> "api"],
                       [message |-> "Add CSV export", repo |-> "api"],
                       [message |-> "Fix login error", repo |-> "api"],
                       [message |-> "Fix typo in readme", repo |-> "api"] >>
  /\ ret[1] = << [description |-> "Bug fixes and error resolution", hours |-> 0, commits |-> 2],
                 [description |-> "General development and maintenance", hours |-> 0, commits |-> 1],
                 [description |-> "New feature development", hours |-> 0, commits |-> 1] >>

\* ------------------------------------------------------------------------
\* Claims about the AI override (Spec)
\* ------------------------------------------------------------------------
HeuristicDescriptions ==
  { CategoryLabels[i] : i \in 1..Len(CategoryLabels) }
  \cup { "Development and maintenance" }

\* The tasks the override rule gives to a week of weekHours hours from the
\* items parsed from the Stage 2 text, when the window has grandTotal hours.
ExpectedAITasks(weekHours, grandTotal) ==
  LET items == parseAILineItems(aiResult.lineItems[1])
  IN IF grandTotal = 0 THEN <<>>
     ELSE SelectSeq([k \in 1..Len(items) |->
                       [items[k] EXCEPT
                          !.hours = NearestHalf(items[k].hours * weekHours, grandTotal)]],
                    LAMBDA t : t.hours > 0)

\* C13: when the Stage 2 call has returned text, every week of the returned
\* invoice holds exactly the parsed AI items in their order, each with its
\* hours scaled by the week's share of the total and rounded to the nearest
\* half hour, those of no hours left out, and no heuristic category; when it
\* has not, every week holds its heuristic tasks.
C13_AIOverrideReplacesAllWeeks ==
  pc = "returned" =>
    LET weeks == invoice[1].weeks
        grandTotal == SumTotalHours(weeks)
    IN IF hasLineItems(aiResult)
       THEN \A i \in 1..Len(weeks) :
              /\ weeks[i].tasks = ExpectedAITasks(weeks[i].totalHours, grandTotal)
              /\ \A k \in 1..Len(weeks[i].tasks) :
                   weeks[i].tasks[k].description \notin HeuristicDescriptions
       ELSE weeks = HeuristicWeeks

\* C13 witness: a two-week invoice of 30 hours a week whose Stage 2 text
\* holds items of 18 and 12 hours between prose was returned with 9 and 6
\* hours in each week.
C13_Witness ==
  /\ pc = "returned"
  /\ hasLineItems(aiResult)
  /\ Len(aiResult.lineItems[1]) = 3
  /\ Len(invoice[1].weeks) = 2
  /\ \A i \in 1..2 :
       /\ Len(invoice[1].weeks[i].tasks) = 2
       /\ invoice[1].weeks[i].tasks[1] =
            [description |-> "Login error handling", hours |-> 36, commits |-> 0]
       /\ invoice[1].weeks[i].tasks[2].hours = 24

\* C14: in a generation run the AI service is called for Stage 1 only with
\* AI and Stage 1 enabled and commits collected, and for Stage 2 only with
\* Stage 2 enabled and after a Stage 1 call that returned text; so it is
\* called at most twice, Stage 1 first.
C14_AICallsGatedAndOrdered ==
  pc \in {"loop", "stage1", "stage2", "override", "format", "returned"} =>
    /\ Len(aiLog) <= 2
    /\ \A i \in 1..Len(aiLog) : aiLog[i].stage = i
    /\ Len(aiLog) >= 1 =>
         /\ config.ai.enabled
         /\ config.ai.codeAnalysis
         /\ Len(allCommits) > 0
         /\ pc # "loop"
    /\ Len(aiLog) = 2 =>
         /\ config.ai.lineItemGeneration
         /\ ~ aiLog[1].failed
         /\ aiResult.codeAnalysis # <<>>
         /\ aiResult.codeAnalysis[1] # ""

\* C14 witness: both stages were called and answered, Stage 1 first, and
\* the invoice was returned.
C14_Witness ==
  /\ pc = "returned"
  /\ aiLog = << [stage |-> 1, failed |-> FALSE], [stage |-> 2, failed |-> FALSE] >>
  /\ Len(allCommits) = 1

\* ------------------------------------------------------------------------
\* Claims about shouldRunToday (RunSpec)
\* ------------------------------------------------------------------------
OnDay(y, m, d) == call.today.y = y /\ call.today.m = m /\ call.today.d = d

nextWeek(date) == nextDay(nextDay(nextDay(nextDay(nextDay(nextDay(nextDay(date)))))))

\* C15: for a bi-weekly-sunday schedule with a startDate, shouldRunToday
\* returns true exactly when today is a Sunday and the whole weeks elapsed
\* since startDate are even in number; with startDate 2024-09-15 it returns
\* true on 15 September 2024, false on 22 September and true on
\* 29 September; of a Sunday and the Sunday after it exactly one runs.
C15_BiWeeklyAlternates ==
  (/\ ret # <<>>
   /\ call.config.schedule.type = "bi-weekly-sunday"
   /\ call.config.schedule.startDate # <<>>)
    => LET start == call.config.schedule.startDate[1]
           weeks == (getTime(call.today) - getTime(parseDate(start))) \div (7 * 24)
       IN /\ ~ ret[1].threw
          /\ ret[1].value <=> (getDay(call.today) = 0 /\ weeks % 2 = 0)
          /\ getDay(call.today) = 0 =>
               shouldRunToday(call.config, nextWeek(call.today)).value # ret[1].value
          /\ (start.y = 2024 /\ start.m = 9 /\ start.d = 15) =>
               /\ OnDay(2024, 9, 15) => ret[1].value
               /\ OnDay(2024, 9, 22) => ~ ret[1].value
               /\ OnDay(2024, 9, 29) => ret[1].value

\* C16: for a bi-weekly-sunday schedule without startDate and for a custom
\* schedule, shouldRunToday throws an Error whatever Date it is given.
C16_UnevaluableAlwaysThrows ==
  (/\ ret # <<>>
   /\ \/ call.config.schedule.type = "custom"
      \/ /\ call.config.schedule.type = "bi-weekly-sunday"
         /\ call.config.schedule.startDate = <<>>)
    => ret[1].threw

\* The lengths of the months of 2024 and of 2025.
CalendarMonthLength(y, m) ==
  IF y = 2024 THEN <<31, 29, 31, 30, 31, 30, 31, 31, 30, 31, 30, 31>>[m]
  ELSE <<31, 28, 31, 30, 31, 30, 31, 31, 30, 31, 30, 31>>[m]

\* C17: for a monthly-last schedule shouldRunToday returns true exactly
\* when today is the last calendar day of its month, 31 December included.
C17_MonthlyLastDay ==
  (ret # <<>> /\ call.config.schedule.type = "monthly-last")
    => /\ ~ ret[1].threw
       /\ ret[1].value <=>
            (call.today.d = CalendarMonthLength(call.today.y, call.today.m))

\* C17 witness: the call for 31 December 2024 has returned true.
C17_Witness ==
  /\ ret # <<>>
  /\ call.config.schedule.type = "monthly-last"
  /\ OnDay(2024, 12, 31)
  /\ ret[1] = Returned(TRUE)

\* ------------------------------------------------------------------------
\* Claims about sendInvoiceEmail (EmailSpec)
\* ------------------------------------------------------------------------
\* C20: with testMode set, the message sendInvoiceEmail hands to the mail
\* service is addressed to b@stokedconsulting.com alone, with no CC and no
\* BCC, whatever recipients, cc and bcc the options hold.
C20_TestModeOnlyTestAddress ==
  (ret # <<>> /\ call.options.testMode) =>
    \A i \in 1..Len(outbox) :
      /\ outbox[i].to = << "b@stokedconsulting.com" >>
      /\ outbox[i].cc = <<>>
      /\ outbox[i].bcc = <<>>

\* C20 witness: a test-mode call whose options name two customer
\* recipients, a cc and a bcc has had its message sent.
C20_Witness ==
  /\ ret # <<>>
  /\ call.options.testMode
  /\ call.options.recipients = << << "ap@acme.example", "cfo@acme.example" >> >>
  /\ call.options.cc = << << "ap@acme.example" >> >>
  /\ call.options.bcc = << << "ap@acme.example" >> >>
  /\ Len(outbox) = 1
  /\ outbox[1].delivered

\* ------------------------------------------------------------------------
\* Claims about the command line (CliSpec)
\* ------------------------------------------------------------------------
DisplayOnlyInvocation ==
  /\ call.configId # <<>>
  /\ ~call.options.test
  /\ ~call.options.send
  /\ ~call.options.sendExisting

Displayed(data) ==
  \E i \in 1..Len(console) : console[i] = said("invoice", data)

GeneratedSavedDisplayed ==
  /\ savedInvoice # <<>>
  /\ savedInvoice[1].configId = call.configId[1]
  /\ \E i \in 1..Len(store) : store[i] = savedInvoice[1]
  /\ Displayed(savedInvoice[1].invoiceData)

\* C18 as stated: an invocation with a configuration id and none of --test,
\* --send, --send-existing that returns has generated, saved and displayed
\* the invoice, and has handed nothing to the email sender.
C18_DisplayOnlyGeneratesNeverEmails ==
  DisplayOnlyInvocation =>
    /\ outbox = <<>>
    /\ cliPc = "returned" => GeneratedSavedDisplayed

\* C18, amended: an invocation with a configuration id and none of --test,
\* --send, --send-existing hands nothing to the email sender in any state
\* of any path, and never reaches a prompt or a send; without --list, when
\* it returns it has generated, saved and displayed the invoice, and the
\* only other ends are exit 1 for an unknown id or a failed generation.
\* With --list it prints the configurations and generates nothing.
C18_DisplayOnlyNeverEmails ==
  DisplayOnlyInvocation =>
    /\ outbox = <<>>
    /\ cliPc \in { "start", "generate", "returned", "exit 1" }
    /\ (cliPc = "returned" /\ ~call.options.list) => GeneratedSavedDisplayed
    /\ (cliPc = "returned" /\ call.options.list) =>
         /\ savedInvoice = <<>>
         /\ ~\E i \in 1..Len(console) : console[i].kind = "invoice"

\* C18 witness: acme invoked with no flag at all has returned with the
\* invoice saved and displayed.
C18_Witness ==
  /\ call.configId = << "acme" >>
  /\ call.options = [test |-> FALSE, send |-> FALSE, sendExisting |-> FALSE,
                     list |-> FALSE]
  /\ cliPc = "returned"
  /\ GeneratedSavedDisplayed
  /\ Len(store) = 3

\* The answers that confirm: y or yes in any case at 'Send invoice? (y/n)',
\* and the confirmation of 'Send invoice to customers?'.
ConfirmingAnswers == { "y", "Y", "yes", "Yes", "YES", "confirm" }

\* The operator's answer to the confirmation prompt, if given yet.
ConfirmationAnswer ==
  IF \E i \in 2..Len(console) :
       /\ console[i].kind = "answer"
       /\ console[i - 1].text \in { "Send invoice? (y/n)", "Send invoice to customers?" }
  THEN << console[CHOOSE i \in 2..Len(console) :
             /\ console[i].kind = "answer"
             /\ console[i - 1].text \in { "Send invoice? (y/n)",
                                         "Send invoice to customers?" }].text >>
  ELSE <<>>

CustomerMail(mail) == ~mail.testMode

\* The sent mark of the saved invoice is as it was when the invocation
\* saved or loaded it.
MarkUntouched ==
  savedInvoice # <<>> =>
    loadInvoice(store, savedInvoice[1].id).sentAt = savedInvoice[1].sentAt

\* C19: with --send and in the 'Send to customers' branch of
\* --send-existing, a message to the configured customer recipients is
\* handed to the email sender only after the operator gave a confirming
\* answer to the confirmation prompt, and the saved invoice is marked as
\* sent only then; after any other answer nothing is sent and the saved
\* invoice keeps its mark.
C19_CustomerSendOnlyAfterConfirmation ==
  /\ (\E i \in 1..Len(outbox) : CustomerMail(outbox[i])) =>
       /\ ConfirmationAnswer # <<>>
       /\ ConfirmationAnswer[1] \in ConfirmingAnswers
  /\ ~MarkUntouched =>
       /\ ConfirmationAnswer # <<>>
       /\ ConfirmationAnswer[1] \in ConfirmingAnswers
       /\ \E i \in 1..Len(outbox) : CustomerMail(outbox[i]) /\ outbox[i].delivered
  /\ (ConfirmationAnswer # <<>> /\ ConfirmationAnswer[1] \notin ConfirmingAnswers) =>
       /\ outbox = <<>>
       /\ MarkUntouched
       /\ cliPc \in { "returned", "exit 0" }

\* C19 witness: --send for acme, the operator answered YES, the message
\* went to the two configured recipients and the saved invoice is marked.
C19_Witness ==
  /\ call.options.send
  /\ ~call.options.test
  /\ ~call.options.sendExisting
  /\ ConfirmationAnswer = << "YES" >>
  /\ Len(outbox) = 1
  /\ outbox[1].to = << "ap@acme.example", "cfo@acme.example" >>
  /\ outbox[1].delivered
  /\ ~MarkUntouched
  /\ cliPc = "returned"

\* C30 as stated: in an invocation with both --test and --send, every
\* message handed to the email sender is the test message, addressed to the
\* test address alone, and the saved invoice keeps its mark.
C30_TestAndSendOnlyTestEmail ==
  (call.options.test /\ call.options.send) =>
    /\ \A i \in 1..Len(outbox) :
         /\ outbox[i].testMode
         /\ outbox[i].to = << "b@stokedconsulting.com" >>
         /\ outbox[i].cc = <<>>
         /\ outbox[i].bcc = <<>>
    /\ MarkUntouched

\* C30, amended: in an invocation with both --test and --send and without
\* --send-existing, at most one message is handed to the email sender, it
\* is the test message addressed to the test address alone, the
\* confirmation prompt is never shown, and the saved invoice keeps its
\* mark. With --send-existing the saved-invoice menu runs instead, where the
\* operator can still choose and confirm a send to the customers.
C30_TestWinsOverSend ==
  (call.options.test /\ call.options.send /\ ~call.options.sendExisting) =>
    /\ Len(outbox) <= 1
    /\ \A i \in 1..Len(outbox) :
         /\ outbox[i].testMode
         /\ outbox[i].to = << "b@stokedconsulting.com" >>
         /\ outbox[i].cc = <<>>
         /\ outbox[i].bcc = <<>>
    /\ MarkUntouched
    /\ ConfirmationAnswer = <<>>
    /\ cliPc \notin { "confirmSend", "sendCustomers" }

\* C30 witness: acme invoked with --test and --send has returned after the
\* test message was delivered.
C30_Witness ==
  /\ call.options.test
  /\ call.options.send
  /\ ~call.options.sendExisting
  /\ call.configId = << "acme" >>
  /\ cliPc = "returned"
  /\ Len(outbox) = 1
  /\ outbox[1].delivered
  /\ savedInvoice # <<>>

\* ------------------------------------------------------------------------
\* Claims about the invoice store across the command line and the scheduler
\* ------------------------------------------------------------------------
\* C26: when the Stage 2 text holds no line of the form
\* '<number>hr - <description>', the weeks of the invoice returned keep
\* their heuristic tasks.
C26_UnparsableTextKeepsHeuristic ==
  (/\ pc = "returned"
   /\ hasLineItems(aiResult)
   /\ parseAILineItems(aiResult.lineItems[1]) = <<>>)
    => invoice[1].weeks = HeuristicWeeks

\* C25: for a bi-weekly-sunday schedule, on every Sunday whose calendar
\* date is earlier than startDate, shouldRunToday returns false.
C25_NeverBeforeStartDate ==
  (/\ ret # <<>>
   /\ call.fn = "shouldRunToday"
   /\ call.config.schedule.type = "bi-weekly-sunday"
   /\ call.config.schedule.startDate # <<>>
   /\ getDay(call.today) = 0
   /\ dayNumber(call.today) < dayNumber(call.config.schedule.startDate[1]))
    => /\ ~ ret[1].threw
       /\ ~ ret[1].value

\* The files of the directory that listInvoices has to return for this
\* argument: those that parse, of that configId when one is given.
Wanted(files, configId) ==
  { i \in 1..Len(files) :
      parses(files[i]) /\ (configId = <<>> \/ files[i].configId = configId[1]) }

ExactlyNewestFirst(result, files) ==
  /\ Len(result.invoices) = Cardinality(Wanted(files, result.configId))
  /\ \A i \in Wanted(files, result.configId) :
       \E k \in 1..Len(result.invoices) : result.invoices[k] = files[i]
  /\ \A k \in 1..Len(result.invoices) :
       \E i \in Wanted(files, result.configId) : result.invoices[k] = files[i]
  /\ \A j, k \in 1..Len(result.invoices) :
       j < k => result.invoices[j].generatedAt >= result.invoices[k].generatedAt

\* C23: after any sequence of saveInvoice, markInvoiceAsSent and
\* deleteInvoice calls, each call of listInvoices returns exactly the files
\* that parse and whose configId equals the argument (all that parse when
\* no argument is given), each once, ordered by generatedAt, newest first.
C23_ListExactNewestFirst ==
  [][List => ExactlyNewestFirst(ret'[1], store)]_vars

\* C23 witness: with a file that does not parse, two invoices of acme and
\* one of globex in the directory, listInvoices('acme') has returned the
\* two of acme, the newer first.
C23_Witness ==
  /\ ret # <<>>
  /\ ret[1].configId = << "acme" >>
  /\ Len(store) = 4
  /\ ~parses(store[1])
  /\ \E i \in 1..Len(store) : parses(store[i]) /\ store[i].configId = "globex"
  /\ Len(ret[1].invoices) = 2
  /\ ret[1].invoices[1].generatedAt > ret[1].invoices[2].generatedAt
  /\ ExactlyNewestFirst(ret[1], store)

Saves == Len(SelectSeq(call, LAMBDA c : c.fn = "saveInvoice"))

NoDelete == \A i \in 1..Len(call) : call[i].fn # "deleteInvoice"

\* C29: after n calls of saveInvoice and no delete, whatever the configIds
\* and the clock values, listInvoices returns n records with pairwise
\* distinct ids.
C29_EverySaveNewRecord ==
  NoDelete =>
    LET all == listInvoices(store, <<>>)
    IN /\ Len(all) = Saves
       /\ \A j, k \in 1..Len(all) : j # k => all[j].id # all[k].id

\* C21: every invoice the scheduler pass generated and handed to the email
\* sender has a record in the invoice store, saved before the send.
C21_GeneratedInvoiceSavedBeforeEmail ==
  \A i \in 1..Len(outbox) :
    \E j \in 1..Len(store) : store[j].configId = outbox[i].configId

\* C22: every invoice the scheduler pass emailed to the customers with
\* success has a saved record carrying a sent timestamp.
C22_SentInvoiceMarked ==
  \A i \in 1..Len(outbox) :
    (outbox[i].delivered /\ ~outbox[i].testMode) =>
      \E j \in 1..Len(store) :
        /\ store[j].configId = outbox[i].configId
        /\ store[j].sentAt # <<>>

\* ------------------------------------------------------------------------
\* Claims about the weekly windows (DateSpec)
\* ------------------------------------------------------------------------
\* C27: for any resolved start and end date, the weekly windows of the
\* invoice returned partition [startDate, endDate]: the first starts on
\* startDate, each next one starts the day after the one before ends, none
\* ends after endDate and the last ends on endDate.
C27_WindowsPartitionRange ==
  (pc = "returned" /\ startDate <= endDate) =>
    LET weeks == invoice[1].weeks
    IN /\ Len(weeks) > 0
       /\ weeks[1].weekStart = startDate
       /\ \A i \in 1..(Len(weeks) - 1) : weeks[i + 1].weekStart = weeks[i].weekEnd + 1
       /\ \A i \in 1..Len(weeks) : weeks[i].weekEnd <= endDate
       /\ weeks[Len(weeks)].weekEnd = endDate

\* ------------------------------------------------------------------------
\* Claims about formatInvoice (FormatSpec)
\* ------------------------------------------------------------------------
\* The tasks of week w that have hours, in task order.
Billed(w) == SelectSeq(call.weeks[w].tasks, LAMBDA t : t.hours > 0)

\* The number of lines before the header of week w: for each earlier week
\* its header, its billed tasks and its blank line.
RECURSIVE LinesBefore(_)
LinesBefore(w) ==
  IF w = 1 THEN 0 ELSE LinesBefore(w - 1) + Len(Billed(w - 1)) + 2

\* C24: the text of formatInvoice holds, for each week in order, the header
\* with the week's dateRange and totalHours, then one line per task with
\* hours > 0 in task order, whole hours printed without a decimal and other
\* hours with one, then a blank line; the text is trimmed, so the blank line
\* of the last week is absent; no line is printed for a task of 0 hours.
C24_FormatInvoiceLayout ==
  (ret # <<>> /\ call.fn = "formatInvoice") =>
    LET text == ret[1]
        n == Len(call.weeks)
    IN /\ Len(text) = IF n = 0 THEN 0 ELSE LinesBefore(n + 1) - 1
       /\ \A w \in 1..n :
            /\ text[LinesBefore(w) + 1] =
                 [kind |-> "header", dateRange |-> call.weeks[w].dateRange,
                  totalHours |-> call.weeks[w].totalHours]
            /\ \A k \in 1..Len(Billed(w)) :
                 LET line == text[LinesBefore(w) + 1 + k]
                     hours == Billed(w)[k].hours
                 IN /\ line.kind = "task"
                    /\ line.description = Billed(w)[k].description
                    /\ 4 * (10 * line.hours.whole
                            + (IF line.hours.tenth = <<>> THEN 0 ELSE line.hours.tenth[1]))
                         \in { 10 * hours - 2, 10 * hours, 10 * hours + 2 }
                    /\ (line.hours.tenth = <<>>) <=> (hours % 4 = 0)
            /\ w < n => text[LinesBefore(w + 1)] = [kind |-> "blank"]
       /\ \A i \in 1..Len(text) :
            text[i].kind = "task" => text[i].hours # [whole |-> 0, tenth |-> <<>>]

\* C24 witness: two weeks formatted, the first with a task of no hours
\* before a task of one hour, the second with tasks of half an hour and of
\* an hour and a quarter.
C24_Witness ==
  /\ ret # <<>>
  /\ call.fn = "formatInvoice"
  /\ Len(call.weeks) = 2
  /\ Len(call.weeks[1].tasks) = 2
  /\ Len(call.weeks[2].tasks) = 2
  /\ [i \in 1..2 |-> call.weeks[1].tasks[i].hours] = << 0, 4 >>
  /\ [i \in 1..2 |-> call.weeks[2].tasks[i].hours] = << 2, 5 >>
  /\ Len(ret[1]) = 6
  /\ ret[1][2].hours = [whole |-> 1, tenth |-> <<>>]
  /\ ret[1][3].kind = "blank"
  /\ ret[1][6].hours = [whole |-> 1, tenth |-> << 3 >>]

====
